---- MODULE Spec2Model ----
(***************************************************************************)
(* Visium objectives backend: the ingestion pipeline of the objectives     *)
(* router (prepareObjectiveDrafts -> createKnowledgeGraphEntry) and the    *)
(* relationship routes, over a store of KnowledgeEntry, Objective and      *)
(* ObjectiveRelationship rows.                                             *)
(*                                                                         *)
(* Strings that the code inspects character by character (statements,     *)
(* stored texts) are sequences of one-character strings.  Identifiers of   *)
(* rows are integers handed out by counters; NullId stands for null.       *)
(***************************************************************************)
EXTENDS Integers, Sequences, FiniteSets, TLC

VARIABLES
    entries,        \* set of KnowledgeEntry ids in the store
    objectives,     \* sequence of Objective rows, in creation order
    relationships,  \* set of ObjectiveRelationship rows
    nextRelId,      \* next ObjectiveRelationship id the store hands out
    calls,          \* per request slot: where a running extract-and-store is
    extraction,     \* the extraction handed to the stage under test (SpecPrep)
    last            \* what the last finished handler answered

vars == <<entries, objectives, relationships, nextRelId, calls, extraction, last>>

-----------------------------------------------------------------------------
(* Bounds of the model *)

MaxObjectives == 2      \* Objective rows the store may hold
MaxEntries == 2         \* KnowledgeEntry rows the store may hold
MaxRelIds == 2          \* relationship ids the store may hand out

NullId == 0 - 1         \* null where the code expects an identifier
GhostId == 0            \* an identifier that names no stored objective
NullStr == "<null>"     \* null where the code expects an enum member
NullText == <<"<null>">> \* null where the code expects a text
AbsentText == <<"<undefined>">>  \* a text field the payload leaves out

-----------------------------------------------------------------------------
(* Strings *)

IsSpace(c) == c = " "

LowerLetters ==
    <<"a", "b", "c", "d", "e", "f", "g", "h", "i", "j", "k", "l", "m", "n", "o", "p", "q", "r", "s", "t", "u", "v", "w", "x", "y", "z">>

UpperLetters ==
    <<"A", "B", "C", "D", "E", "F", "G", "H", "I", "J", "K", "L", "M", "N", "O", "P", "Q", "R", "S", "T", "U", "V", "W", "X", "Y", "Z">>

LowerOfUpper ==
    [c \in {UpperLetters[i] : i \in DOMAIN UpperLetters} |->
        LowerLetters[CHOOSE i \in DOMAIN UpperLetters : UpperLetters[i] = c]]

LowerChar(c) == IF c \in DOMAIN LowerOfUpper THEN LowerOfUpper[c] ELSE c

ToLowerCase(s) == [i \in 1..Len(s) |-> LowerChar(s[i])]

RECURSIVE TrimStart(_)
TrimStart(s) ==
    IF s # <<>> /\ IsSpace(Head(s)) THEN TrimStart(Tail(s)) ELSE s

RECURSIVE TrimEnd(_)
TrimEnd(s) ==
    IF s # <<>> /\ IsSpace(s[Len(s)]) THEN TrimEnd(SubSeq(s, 1, Len(s) - 1)) ELSE s

Trim(s) == TrimEnd(TrimStart(s))

\* replace(/\s+/g, ' '): every maximal run of whitespace becomes one space
RECURSIVE CollapseWhitespace(_)
CollapseWhitespace(s) ==
    IF s = <<>> THEN <<>>
    ELSE IF IsSpace(Head(s))
         THEN <<" ">> \o CollapseWhitespace(TrimStart(s))
         ELSE <<Head(s)>> \o CollapseWhitespace(Tail(s))

normalize(statement) ==
    LET original == Trim(statement)
    IN  [original |-> original,
         normalized |-> CollapseWhitespace(ToLowerCase(original))]

\* Prisma filter { equals: x, mode: 'insensitive' }
EqualsInsensitive(text, x) == ToLowerCase(text) = ToLowerCase(x)

-----------------------------------------------------------------------------
(* Classification of relationship types *)

ObjectiveRelationshipType ==
    {"SUPPORTS", "DEPENDS_ON", "RELATES_TO", "BLOCKS", "INFORMS"}

\* value.trim().toUpperCase().replace(/\s+/g, '_') on the type strings the
\* extractor is modelled to produce
UpperUnderscore(value) ==
    CASE value = "SUPPORTS"     -> "SUPPORTS"
      [] value = "supports"     -> "SUPPORTS"
      [] value = " blocks "     -> "BLOCKS"
      [] value = "unblocks"     -> "UNBLOCKS"
      [] value = "blocked by"   -> "BLOCKED_BY"
      [] value = "depends on"   -> "DEPENDS_ON"
      [] value = "aligns with"  -> "ALIGNS_WITH"
      [] value = "connected to" -> "CONNECTED_TO"
      [] value = "inspires"     -> "INSPIRES"
      [] value = "causes"       -> "CAUSES"
      [] OTHER                  -> value

\* the switch taking UNBLOCKS for BLOCKS
parseRelationshipTypeUnblocks(value) ==
    IF value = "" \/ value = NullStr THEN NullStr
    ELSE IF UpperUnderscore(value) \in ObjectiveRelationshipType
    THEN UpperUnderscore(value)
    ELSE CASE UpperUnderscore(value) \in {"SUPPORTS", "ALIGNS_WITH"} -> "SUPPORTS"
           [] UpperUnderscore(value) \in {"BLOCKED_BY", "DEPENDS_ON"} -> "DEPENDS_ON"
           [] UpperUnderscore(value) \in {"RELATES_TO", "CONNECTED_TO"} -> "RELATES_TO"
           [] UpperUnderscore(value) \in {"BLOCKS", "UNBLOCKS"} -> "BLOCKS"
           [] UpperUnderscore(value) \in {"INFORMS", "INSPIRES"} -> "INFORMS"
           [] OTHER -> NullStr

parseRelationshipType(value) ==
    IF value = "" \/ value = NullStr THEN NullStr
    ELSE LET normalized == UpperUnderscore(value)
         IN  IF normalized \in ObjectiveRelationshipType THEN normalized
             ELSE CASE normalized \in {"SUPPORTS", "ALIGNS_WITH"} -> "SUPPORTS"
                    [] normalized \in {"UNBLOCKS", "BLOCKED_BY", "DEPENDS_ON"} -> "DEPENDS_ON"
                    [] normalized \in {"RELATES_TO", "CONNECTED_TO"} -> "RELATES_TO"
                    [] normalized = "BLOCKS" -> "BLOCKS"
                    [] normalized \in {"INFORMS", "INSPIRES"} -> "INFORMS"
                    [] OTHER -> NullStr

-----------------------------------------------------------------------------
(* Classification of status and priority.  The free-text values of the     *)
(* extractor are sequences of characters; Spell gives the characters of    *)
(* the words the code compares with.                                       *)

ToUpperChar(c) ==
    IF \E i \in DOMAIN LowerLetters : LowerLetters[i] = c
    THEN UpperLetters[CHOOSE i \in DOMAIN LowerLetters : LowerLetters[i] = c]
    ELSE c

ToUpperCase(s) == [i \in 1..Len(s) |-> ToUpperChar(s[i])]

Spell ==
    ("PROPOSED" :> <<"P", "R", "O", "P", "O", "S", "E", "D">>) @@
    ("PLANNED" :> <<"P", "L", "A", "N", "N", "E", "D">>) @@
    ("ACTIVE" :> <<"A", "C", "T", "I", "V", "E">>) @@
    ("BLOCKED" :> <<"B", "L", "O", "C", "K", "E", "D">>) @@
    ("COMPLETE" :> <<"C", "O", "M", "P", "L", "E", "T", "E">>) @@
    ("IN PROGRESS" :> <<"I", "N", " ", "P", "R", "O", "G", "R", "E", "S", "S">>) @@
    ("IN_PROGRESS" :> <<"I", "N", "_", "P", "R", "O", "G", "R", "E", "S", "S">>) @@
    ("PLANNING" :> <<"P", "L", "A", "N", "N", "I", "N", "G">>) @@
    ("ON HOLD" :> <<"O", "N", " ", "H", "O", "L", "D">>) @@
    ("ON_HOLD" :> <<"O", "N", "_", "H", "O", "L", "D">>) @@
    ("DONE" :> <<"D", "O", "N", "E">>) @@
    ("COMPLETED" :> <<"C", "O", "M", "P", "L", "E", "T", "E", "D">>) @@
    ("IDEA" :> <<"I", "D", "E", "A">>) @@
    ("HIGH" :> <<"H", "I", "G", "H">>) @@
    ("MEDIUM" :> <<"M", "E", "D", "I", "U", "M">>) @@
    ("LOW" :> <<"L", "O", "W">>) @@
    ("P0" :> <<"P", "0">>) @@
    ("CRITICAL" :> <<"C", "R", "I", "T", "I", "C", "A", "L">>) @@
    ("HIGHEST" :> <<"H", "I", "G", "H", "E", "S", "T">>) @@
    ("P2" :> <<"P", "2">>) @@
    ("SOMEDAY" :> <<"S", "O", "M", "E", "D", "A", "Y">>) @@
    ("ON  HOLD" :> <<"O", "N", " ", " ", "H", "O", "L", "D">>) @@
    ("URGENT" :> <<"U", "R", "G", "E", "N", "T">>) @@
    ("P1" :> <<"P", "1">>)

\* the word a sequence of characters spells, "" for none of Spell
WordOf(chars) ==
    IF \E w \in DOMAIN Spell : Spell[w] = chars
    THEN CHOOSE w \in DOMAIN Spell : Spell[w] = chars
    ELSE ""

ObjectiveStatus == {"PROPOSED", "PLANNED", "ACTIVE", "BLOCKED", "COMPLETE"}

ObjectivePriority == {"HIGH", "MEDIUM", "LOW"}

\* !value: null, undefined and the empty string
Falsy(value) == value = NullText \/ value = AbsentText \/ value = <<>>

\* the switch without the spellings that hold a space
statusOfWordUnderscored(normalized) ==
    IF normalized \in ObjectiveStatus THEN normalized
    ELSE CASE normalized \in {"IN_PROGRESS", "ACTIVE"} -> "ACTIVE"
           [] normalized \in {"PLANNED", "PLANNING"} -> "PLANNED"
           [] normalized \in {"BLOCKED", "ON_HOLD"} -> "BLOCKED"
           [] normalized \in {"DONE", "COMPLETE", "COMPLETED"} -> "COMPLETE"
           [] OTHER -> "PROPOSED"

\* the switch of parseStatus after the lookup among the enum's members
statusOfWord(normalized) ==
    IF normalized \in ObjectiveStatus THEN normalized
    ELSE CASE normalized \in {"IN PROGRESS", "IN_PROGRESS", "ACTIVE"} -> "ACTIVE"
           [] normalized \in {"PLANNED", "PLANNING"} -> "PLANNED"
           [] normalized \in {"BLOCKED", "ON HOLD", "ON_HOLD"} -> "BLOCKED"
           [] normalized \in {"DONE", "COMPLETE", "COMPLETED"} -> "COMPLETE"
           [] OTHER -> "PROPOSED"

\* the result is NullStr where the code returns undefined
parseStatus(value) ==
    IF Falsy(value) THEN NullStr
    ELSE statusOfWord(WordOf(ToUpperCase(Trim(value))))

\* the switch of parsePriority after the lookup among the enum's members
priorityOfWord(normalized) ==
    IF normalized \in ObjectivePriority THEN normalized
    ELSE CASE normalized \in {"P0", "CRITICAL", "HIGHEST"} -> "HIGH"
           [] normalized \in {"P2", "LOW"} -> "LOW"
           [] OTHER -> "MEDIUM"

parsePriority(value) ==
    IF Falsy(value) THEN NullStr
    ELSE priorityOfWord(WordOf(ToUpperCase(Trim(value))))

-----------------------------------------------------------------------------
(* Confidence and weight.  A JavaScript value is a record: Null, Undefined, *)
(* NaN, Num(v) with v the number in units of 1/Scale, or Str(s) with s a    *)
(* sequence of characters.  The values of the model have at most four       *)
(* decimal places, so the arithmetic on them is exact.                      *)

Scale == 100 * 100

Null == [kind |-> "null"]
Undefined == [kind |-> "undefined"]
NaN == [kind |-> "NaN"]
Num(v) == [kind |-> "number", v |-> v]
Str(s) == [kind |-> "string", s |-> s]

Digits == <<"0", "1", "2", "3", "4", "5", "6", "7", "8", "9">>

IsDigit(c) == \E i \in DOMAIN Digits : Digits[i] = c

DigitValue(c) == (CHOOSE i \in DOMAIN Digits : Digits[i] = c) - 1

\* the longest prefix of digits
RECURSIVE DigitPrefix(_)
DigitPrefix(s) ==
    IF s # <<>> /\ IsDigit(Head(s)) THEN <<Head(s)>> \o DigitPrefix(Tail(s)) ELSE <<>>

RECURSIVE Pow10(_)
Pow10(k) == IF k = 0 THEN 1 ELSE 10 * Pow10(k - 1)

RECURSIVE DigitsValue(_)
DigitsValue(ds) ==
    IF ds = <<>> THEN 0
    ELSE 10 * DigitsValue(SubSeq(ds, 1, Len(ds) - 1)) + DigitValue(ds[Len(ds)])

\* parseFloat: leading whitespace, a sign, digits, a point and digits; the
\* longest such prefix is the number, NaN when it holds no digit
Magnitude(int, frac) ==
    IF int = <<>> /\ frac = <<>> THEN NaN
    ELSE Num(DigitsValue(int) * Scale
                + (DigitsValue(frac) * Scale) \div Pow10(Len(frac)))

FractionDigits(rest) ==
    IF rest # <<>> /\ Head(rest) = "." THEN DigitPrefix(Tail(rest)) ELSE <<>>

AfterInteger(s, int) ==
    Magnitude(int, FractionDigits(SubSeq(s, Len(int) + 1, Len(s))))

Negated(number) == IF number.kind = "NaN" THEN NaN ELSE Num(0 - number.v)

AfterWhitespace(s) ==
    IF s # <<>> /\ Head(s) = "-"
    THEN Negated(AfterInteger(Tail(s), DigitPrefix(Tail(s))))
    ELSE IF s # <<>> /\ Head(s) = "+"
    THEN AfterInteger(Tail(s), DigitPrefix(Tail(s)))
    ELSE AfterInteger(s, DigitPrefix(s))

parseFloat(str) == AfterWhitespace(TrimStart(str))

\* String(value) of a value that is not a finite number
String(value) == IF value.kind = "string" THEN value.s ELSE <<"N", "a", "N">>

\* replace(/[^0-9.]/g, '')
StripNonNumeric(s) == SelectSeq(s, LAMBDA c : IsDigit(c) \/ c = ".")

clamp(value) ==
    IF value.kind = "NaN" THEN Num(0)
    ELSE IF value.v < 0 THEN Num(0)
    ELSE IF value.v > Scale THEN Num(Scale)
    ELSE value

\* parsed > 1 ? clamp(parsed / 100) : clamp(parsed), null for NaN
percentOrFraction(parsed) ==
    IF parsed.kind = "NaN" THEN Null
    ELSE IF parsed.v > Scale THEN clamp(Num(parsed.v \div 100))
    ELSE clamp(parsed)

parseConfidence(value) ==
    IF value.kind \in {"null", "undefined"} THEN Null
    ELSE IF value.kind = "number" THEN clamp(value)
    ELSE percentOrFraction(parseFloat(StripNonNumeric(String(value))))

clampOrNull(parsed) == IF parsed.kind = "NaN" THEN Null ELSE clamp(parsed)

parseWeight(value) ==
    IF value.kind \in {"null", "undefined"} THEN Null
    ELSE IF value.kind = "number" THEN clamp(value)
    ELSE clampOrNull(parseFloat(String(value)))

-----------------------------------------------------------------------------
(* References: a batch-local key is <<key>>, "existing:<id>" is             *)
(* <<"existing:", id>>, the empty string is <<>>.                           *)

KeyRef(key) == <<key>>
ExistingRef(id) == <<"existing:", id>>

startsWithExisting(ref) == Len(ref) >= 2 /\ ref[1] = "existing:"

-----------------------------------------------------------------------------
(* prepareObjectiveDrafts: deduplication and reference filtering *)

Range(f) == {f[i] : i \in DOMAIN f}

\* objective.status and the like: undefined when the candidate has no such
\* field
Field(record, name, absent) ==
    IF name \in DOMAIN record THEN record[name] ELSE absent

toObjectiveDraft(objective) ==
    [key |-> objective.key,
     text |-> Trim(objective.statement),
     status |-> parseStatus(Field(objective, "status", AbsentText)),
     priority |-> parsePriority(Field(objective, "priority", AbsentText)),
     confidence |-> parseConfidence(Field(objective, "confidence", Undefined))]

\* rationale?.trim() ?? null
trimOrNull(text) == IF text \in {NullText, AbsentText} THEN NullText ELSE Trim(text)

toRelationshipDraft(relationship) ==
    [from |-> relationship.from,
     to |-> relationship.to,
     type |-> parseRelationshipType(relationship.type),
     rationale |-> trimOrNull(relationship.rationale),
     weight |-> parseWeight(Field(relationship, "weight", Undefined))]

\* prisma.objective.findMany({ where: { OR: [ text equals original, insensitive ] } })
existingMatches(rows, normalizedStatements) ==
    {rows[i].text : i \in {j \in DOMAIN rows :
        \E k \in DOMAIN normalizedStatements :
            EqualsInsensitive(rows[j].text, normalizedStatements[k].original)}}

\* the loop without the seen-set update
RECURSIVE dedupLoopForgetful(_, _, _)
dedupLoopForgetful(candidates, i, acc) ==
    IF i > Len(candidates) THEN acc
    ELSE LET normalized == normalize(candidates[i].statement)
         IN  IF Len(normalized.normalized) = 0
             THEN dedupLoopForgetful(candidates, i + 1, acc)
             ELSE IF normalized.normalized \in acc.seenTexts
             THEN dedupLoopForgetful(candidates, i + 1,
                            [acc EXCEPT !.duplicates = @ + 1])
             ELSE dedupLoopForgetful(candidates, i + 1,
                            [acc EXCEPT
                                !.objectives = Append(@, toObjectiveDraft(candidates[i]))])

\* the loop counting an empty statement as a duplicate
RECURSIVE dedupLoopCountingEmpty(_, _, _)
dedupLoopCountingEmpty(candidates, i, acc) ==
    IF i > Len(candidates) THEN acc
    ELSE LET normalized == normalize(candidates[i].statement)
         IN  IF Len(normalized.normalized) = 0 \/ normalized.normalized \in acc.seenTexts
             THEN dedupLoopCountingEmpty(candidates, i + 1,
                            [acc EXCEPT !.duplicates = @ + 1])
             ELSE dedupLoopCountingEmpty(candidates, i + 1,
                            [acc EXCEPT
                                !.seenTexts = @ \cup {normalized.normalized},
                                !.objectives = Append(@, toObjectiveDraft(candidates[i]))])

\* the loop over extraction.objectives; acc holds objectives, duplicates, seenTexts
RECURSIVE dedupLoop(_, _, _)
dedupLoop(candidates, i, acc) ==
    IF i > Len(candidates) THEN acc
    ELSE LET normalized == normalize(candidates[i].statement)
         IN  IF Len(normalized.normalized) = 0
             THEN dedupLoop(candidates, i + 1, acc)
             ELSE IF normalized.normalized \in acc.seenTexts
             THEN dedupLoop(candidates, i + 1,
                            [acc EXCEPT !.duplicates = @ + 1])
             ELSE dedupLoop(candidates, i + 1,
                            [acc EXCEPT
                                !.seenTexts = @ \cup {normalized.normalized},
                                !.objectives = Append(@, toObjectiveDraft(candidates[i]))])

\* the filter refusing a draft whose two references are the same
relationshipFilterNoLoops(rel, validKeys) ==
    /\ rel.type # NullStr
    /\ (startsWithExisting(rel.from) \/ (Len(rel.from) = 1 /\ rel.from[1] \in validKeys))
    /\ (startsWithExisting(rel.to) \/ (Len(rel.to) = 1 /\ rel.to[1] \in validKeys))
    /\ rel.from # rel.to

\* the filter over the relationship drafts
relationshipFilter(rel, validKeys) ==
    /\ rel.type # NullStr
    /\ (startsWithExisting(rel.from) \/ (Len(rel.from) = 1 /\ rel.from[1] \in validKeys))
    /\ (startsWithExisting(rel.to) \/ (Len(rel.to) = 1 /\ rel.to[1] \in validKeys))

\* The extraction is the extractor's JSON as parsed, with no check of its
\* shape.  statement.trim() in normalize and rel.from.startsWith /
\* rel.to.startsWith in the filter throw a TypeError on a field that is
\* not there; a relationship whose type does not classify is dropped
\* before its references are looked at.
prepareThrows(ext) ==
    \/ \E i \in DOMAIN ext.objectives : ext.objectives[i].statement = AbsentText
    \/ \E i \in DOMAIN ext.relationships :
          /\ parseRelationshipType(ext.relationships[i].type) # NullStr
          /\ \/ ext.relationships[i].from = AbsentText
             \/ ext.relationships[i].to = AbsentText

prepareObjectiveDrafts(ext, rows) ==
    LET normalizedStatements ==
            [i \in DOMAIN ext.objectives |-> normalize(ext.objectives[i].statement)]
        seen0 == {normalize(t).normalized : t \in existingMatches(rows, normalizedStatements)}
        acc == dedupLoop(ext.objectives, 1,
                         [objectives |-> <<>>, duplicates |-> 0, seenTexts |-> seen0])
        validKeys == {acc.objectives[i].key : i \in DOMAIN acc.objectives}
        mapped == [i \in DOMAIN ext.relationships |-> toRelationshipDraft(ext.relationships[i])]
        keep(rel) == relationshipFilter(rel, validKeys)
    IN  [objectives |-> acc.objectives,
         relationships |-> SelectSeq(mapped, keep),
         duplicates |-> acc.duplicates]

-----------------------------------------------------------------------------
(* The store: db = [entries, objectives, relationships, nextRelId] *)

ObjectiveIds(db) == {db.objectives[i].id : i \in DOMAIN db.objectives}

ForeignKeyOff(db, fromId, toId) == TRUE

\* the relation fields from/to of ObjectiveRelationship: both name Objective rows
ForeignKeyHolds(db, fromId, toId) ==
    fromId \in ObjectiveIds(db) /\ toId \in ObjectiveIds(db)

\* the compound unique key fromId_toId_type
RowsWithKey(db, fromId, toId, type) ==
    {r \in db.relationships : r.fromId = fromId /\ r.toId = toId /\ r.type = type}

resolveReference(ref, keyToId) ==
    IF ref = <<>> THEN NullId
    ELSE IF startsWithExisting(ref) THEN ref[2]
    ELSE IF ref[1] \in DOMAIN keyToId THEN keyToId[ref[1]] ELSE NullId

\* tx.knowledgeEntry.create
createEntry(db) ==
    [db EXCEPT !.entries = @ \cup {Cardinality(@) + 1}]

\* the create without `?? PROPOSED` and `?? MEDIUM`
createObjectiveAsDrafted(db, draft, entryId) ==
    [db EXCEPT !.objectives =
        Append(@, [id |-> Len(@) + 1, text |-> draft.text,
                   status |-> draft.status,
                   priority |-> draft.priority,
                   confidence |-> draft.confidence,
                   entryId |-> entryId])]

\* tx.objective.create: the store assigns the identifier
createObjective(db, draft, entryId) ==
    [db EXCEPT !.objectives =
        Append(@, [id |-> Len(@) + 1, text |-> draft.text,
                   status |-> IF draft.status = NullStr
                              THEN "PROPOSED" ELSE draft.status,
                   priority |-> IF draft.priority = NullStr
                                THEN "MEDIUM" ELSE draft.priority,
                   confidence |-> draft.confidence,
                   entryId |-> entryId])]

\* keyToId.set(objective.key, created.id)
mapSet(map, key, value) ==
    [k \in DOMAIN map \cup {key} |-> IF k = key THEN value ELSE map[k]]

\* tx.objectiveRelationship.upsert on fromId_toId_type.  The result is
\* [ok, db, row]; ok is FALSE when the store rejects the insert.
insertRelationship(db, fromId, toId, rel) ==
    LET row == [id |-> db.nextRelId, fromId |-> fromId, toId |-> toId,
                type |-> rel.type, rationale |-> rel.rationale,
                weight |-> rel.weight]
    IN  IF ~ForeignKeyHolds(db, fromId, toId)
        THEN [ok |-> FALSE, db |-> db, row |-> row]
        ELSE [ok |-> TRUE,
              db |-> [db EXCEPT !.relationships = @ \cup {row},
                                !.nextRelId = @ + 1],
              row |-> row]

upsertInsertAlways(db, fromId, toId, rel) == insertRelationship(db, fromId, toId, rel)

upsertKeepsRationale(db, fromId, toId, rel) ==
    LET found == RowsWithKey(db, fromId, toId, rel.type)
    IN  IF found # {}
        THEN [ok |-> TRUE, db |-> db, row |-> CHOOSE r \in found : TRUE]
        ELSE insertRelationship(db, fromId, toId, rel)

\* an update that writes the draft's fields as they are, null or not
upsertOverwriting(db, fromId, toId, rel) ==
    LET found == RowsWithKey(db, fromId, toId, rel.type)
    IN  IF found # {}
        THEN [ok |-> TRUE,
              db |-> [db EXCEPT !.relationships =
                         (@ \ found) \cup
                         {[r EXCEPT !.rationale = rel.rationale,
                                    !.weight = rel.weight] : r \in found}],
              row |-> [(CHOOSE r \in found : TRUE) EXCEPT
                          !.rationale = rel.rationale, !.weight = rel.weight]]
        ELSE insertRelationship(db, fromId, toId, rel)

upsert(db, fromId, toId, rel) ==
    LET found == RowsWithKey(db, fromId, toId, rel.type)
    IN  IF found # {}
        THEN LET old == CHOOSE r \in found : TRUE
                 new == [old EXCEPT
                            !.rationale =
                                IF rel.rationale = NullText THEN @ ELSE rel.rationale,
                            !.weight = IF rel.weight = Null THEN @ ELSE rel.weight]
             IN  [ok |-> TRUE,
                  db |-> [db EXCEPT !.relationships = (@ \ {old}) \cup {new}],
                  row |-> new]
        ELSE insertRelationship(db, fromId, toId, rel)

\* The body of the transaction callback.  fault names the storage call
\* (1 = the entry, then the objectives, then the upserts) that the storage
\* engine fails, 0 for none.  The result carries the store as the callback
\* left it, whether it returned or threw.
RECURSIVE objectiveLoop(_, _, _, _)
objectiveLoop(drafts, i, fault, acc) ==
    IF i > Len(drafts) THEN acc
    ELSE IF fault = acc.calls + 1
    THEN [acc EXCEPT !.ok = FALSE]
    ELSE LET db2 == createObjective(acc.db, drafts[i], acc.entryId)
             created == db2.objectives[Len(db2.objectives)]
         IN  objectiveLoop(drafts, i + 1, fault,
                [acc EXCEPT !.db = db2,
                            !.calls = @ + 1,
                            !.keyToId = mapSet(@, drafts[i].key, created.id),
                            !.objectives = Append(@, created)])

skipOnlyUnresolved(fromId, toId) ==
    fromId = NullId \/ toId = NullId

\* if (!fromId || !toId || fromId === toId) continue
skipRelationship(fromId, toId) ==
    fromId = NullId \/ toId = NullId \/ fromId = toId

RECURSIVE relationshipLoop(_, _, _, _)
relationshipLoop(rels, i, fault, acc) ==
    IF i > Len(rels) THEN acc
    ELSE LET fromId == resolveReference(rels[i].from, acc.keyToId)
             toId == resolveReference(rels[i].to, acc.keyToId)
         IN  IF skipRelationship(fromId, toId)
             THEN relationshipLoop(rels, i + 1, fault, acc)
             ELSE IF fault = acc.calls + 1
             THEN [acc EXCEPT !.ok = FALSE]
             ELSE LET res == upsert(acc.db, fromId, toId, rels[i])
                  IN  IF ~res.ok
                      THEN [acc EXCEPT !.ok = FALSE]
                      ELSE relationshipLoop(rels, i + 1, fault,
                              [acc EXCEPT !.db = res.db,
                                          !.calls = @ + 1,
                                          !.relationships = Append(@, res.row)])

transactionBody(db, objectiveDrafts, relationshipDrafts, fault) ==
    IF fault = 1
    THEN [ok |-> FALSE, db |-> db, calls |-> 0, entryId |-> NullId,
          keyToId |-> <<>>, objectives |-> <<>>, relationships |-> <<>>]
    ELSE LET db1 == createEntry(db)
             start == [ok |-> TRUE, db |-> db1, calls |-> 1,
                       entryId |-> Cardinality(db1.entries),
                       keyToId |-> <<>>, objectives |-> <<>>,
                       relationships |-> <<>>]
             afterObjectives == objectiveLoop(objectiveDrafts, 1, fault, start)
         IN  IF ~afterObjectives.ok THEN afterObjectives
             ELSE relationshipLoop(relationshipDrafts, 1, fault, afterObjectives)

\* prisma.$transaction: the callback's writes are committed when it returns
\* and rolled back when it throws
commitAlways(db, result) == result.db

transaction(db, result) == IF result.ok THEN result.db ELSE db

createKnowledgeGraphEntry(db, objectiveDrafts, relationshipDrafts, fault) ==
    LET result == transactionBody(db, objectiveDrafts, relationshipDrafts, fault)
    IN  [ok |-> result.ok,
         db |-> transaction(db, result),
         calls |-> result.calls,
         objectives |-> result.objectives,
         relationships |-> result.relationships]

-----------------------------------------------------------------------------
(* Readers *)

\* include: { to: { select: id, text, status, priority } }: the relation
\* `to` of ObjectiveRelationship is the Objective row that toId names (the
\* foreign key leaves no link without one; such a link would read as null)
includeTo(db, link) ==
    LET found == {i \in DOMAIN db.objectives : db.objectives[i].id = link.toId}
        row == IF found = {}
               THEN [id |-> NullId, text |-> NullText,
                     status |-> NullStr, priority |-> NullStr]
               ELSE db.objectives[CHOOSE i \in found : TRUE]
    IN  [k \in DOMAIN link \cup {"to"} |->
            IF k = "to"
            THEN [id |-> row.id, text |-> row.text,
                  status |-> row.status, priority |-> row.priority]
            ELSE link[k]]

\* include: { outgoingLinks }: the relation outgoingLinks of Objective is
\* the relationships whose fromId names the objective
includeOutgoingLinks(db, objective) ==
    [k \in DOMAIN objective \cup {"outgoingLinks"} |->
        IF k = "outgoingLinks"
        THEN {includeTo(db, r) : r \in {q \in db.relationships : q.fromId = objective.id}}
        ELSE objective[k]]

\* the mapping that inlines the fields of the link's source
mapObjectiveToDTOSource(objective) ==
    [id |-> objective.id, text |-> objective.text,
     status |-> objective.status, priority |-> objective.priority,
     confidence |-> objective.confidence,
     related |-> {[id |-> link.id, type |-> link.type,
                   rationale |-> link.rationale, weight |-> link.weight,
                   target |-> [id |-> objective.id, text |-> objective.text,
                               status |-> objective.status,
                               priority |-> objective.priority]] :
                  link \in objective.outgoingLinks}]

\* related is a set: the include gives the links in no stated order
mapObjectiveToDTO(objective) ==
    [id |-> objective.id, text |-> objective.text,
     status |-> objective.status, priority |-> objective.priority,
     confidence |-> objective.confidence,
     related |-> {[id |-> link.id, type |-> link.type,
                   rationale |-> link.rationale, weight |-> link.weight,
                   target |-> [id |-> link.to.id, text |-> link.to.text,
                               status |-> link.to.status,
                               priority |-> link.to.priority]] :
                  link \in objective.outgoingLinks}]

\* objectives.map(mapObjectiveToDTO) over the rows found with their links
withRelations(db, rows) ==
    [i \in DOMAIN rows |-> mapObjectiveToDTO(includeOutgoingLinks(db, rows[i]))]

\* prisma.objective.findMany({ where: { id: { in: ids } } })
getObjectivesByIds(db, ids) ==
    IF ids = <<>> THEN <<>>
    ELSE withRelations(db, SelectSeq(db.objectives, LAMBDA row : row.id \in Range(ids)))

\* orderBy: { createdAt: 'desc' }: the rows are kept in creation order
byCreatedAtDesc(rows) == [i \in 1..Len(rows) |-> rows[Len(rows) + 1 - i]]

\* take: limit, skip: offset
page(rows, limit, offset) ==
    SubSeq(rows, offset + 1,
           IF offset + limit < Len(rows) THEN offset + limit ELSE Len(rows))

getObjectivesWithRelationsNoSkip(db, limit, offset) ==
    withRelations(db, page(byCreatedAtDesc(db.objectives), limit, 0))

getObjectivesWithRelations(db, limit, offset) ==
    withRelations(db, page(byCreatedAtDesc(db.objectives), limit, offset))

\* text: { contains: query, mode: 'insensitive' }
RECURSIVE ContainsInsensitive(_, _)
ContainsInsensitive(text, query) ==
    IF Len(text) < Len(query) THEN FALSE
    ELSE IF ToLowerCase(SubSeq(text, 1, Len(query))) = ToLowerCase(query) THEN TRUE
    ELSE ContainsInsensitive(Tail(text), query)

\* the objectives of the model carry no tags, so tags: { hasSome } finds none
searchObjectives(db, query, limit, offset) ==
    withRelations(db,
        page(byCreatedAtDesc(SelectSeq(db.objectives,
                LAMBDA row : ContainsInsensitive(row.text, query))),
             limit, offset))

\* the first query of getKnowledgeGraphSnapshot, mapped
snapshotObjectives(db) == withRelations(db, byCreatedAtDesc(db.objectives))

\* the second query
snapshotRelationships(db) == db.relationships

\* both queries with no write in between
getKnowledgeGraphSnapshot(db) ==
    [objectives |-> snapshotObjectives(db),
     relationships |-> snapshotRelationships(db)]

-----------------------------------------------------------------------------
(* Relatedness of a new objective text to the existing objectives *)

\* \w of a regular expression
IsWordChar(c) ==
    \/ \E i \in DOMAIN LowerLetters : c = LowerLetters[i] \/ c = UpperLetters[i]
    \/ IsDigit(c)
    \/ c = "_"

stopWords ==
    {<<"t", "h", "e">>, <<"a">>, <<"a", "n">>, <<"a", "n", "d">>,
     <<"o", "r">>, <<"b", "u", "t">>, <<"i", "n">>, <<"o", "n">>,
     <<"a", "t">>, <<"t", "o">>, <<"f", "o", "r">>, <<"o", "f">>,
     <<"w", "i", "t", "h">>, <<"b", "y">>, <<"i", "s">>, <<"a", "r", "e">>,
     <<"w", "a", "s">>, <<"w", "e", "r", "e">>, <<"b", "e">>,
     <<"b", "e", "e", "n">>, <<"h", "a", "v", "e">>, <<"h", "a", "s">>,
     <<"h", "a", "d">>, <<"w", "i", "l", "l">>, <<"w", "o", "u", "l", "d">>,
     <<"c", "o", "u", "l", "d">>, <<"s", "h", "o", "u", "l", "d">>,
     <<"m", "a", "y">>, <<"m", "i", "g", "h", "t">>, <<"t", "h", "i", "s">>,
     <<"t", "h", "a", "t">>, <<"t", "h", "e", "s", "e">>,
     <<"t", "h", "o", "s", "e">>, <<"i">>, <<"y", "o", "u">>, <<"h", "e">>,
     <<"s", "h", "e">>, <<"i", "t">>, <<"w", "e">>, <<"t", "h", "e", "y">>,
     <<"m", "e">>, <<"h", "i", "m">>, <<"h", "e", "r">>, <<"u", "s">>,
     <<"t", "h", "e", "m">>, <<"m", "y">>, <<"y", "o", "u", "r">>,
     <<"h", "i", "s">>, <<"i", "t", "s">>, <<"o", "u", "r">>,
     <<"t", "h", "e", "i", "r">>}

isStopWord(word) == word \in stopWords

\* replace(/[^\w\s]/g, ' ')
ReplacePunctuation(s) ==
    [i \in 1..Len(s) |-> IF IsWordChar(s[i]) \/ IsSpace(s[i]) THEN s[i] ELSE " "]

\* the first index from i on that holds no whitespace
RECURSIVE SkipWhitespace(_, _)
SkipWhitespace(s, i) ==
    IF i <= Len(s) /\ IsSpace(s[i]) THEN SkipWhitespace(s, i + 1) ELSE i

\* split(/\s+/): the pieces between the maximal runs of whitespace, the
\* empty pieces at the ends included
RECURSIVE SplitWhitespace(_, _, _)
SplitWhitespace(s, i, piece) ==
    IF i > Len(s) THEN <<piece>>
    ELSE IF IsSpace(s[i])
    THEN <<piece>> \o SplitWhitespace(s, SkipWhitespace(s, i), <<>>)
    ELSE SplitWhitespace(s, i + 1, Append(piece, s[i]))

KeptWords(words) ==
    {words[i] : i \in {k \in DOMAIN words :
                          Len(words[k]) > 2 /\ ~isStopWord(words[k])}}

extractWords(text) ==
    KeptWords(SplitWhitespace(ReplacePunctuation(ToLowerCase(text)), 1, <<>>))

\* Jaccard similarity as the fraction num / den
calculateKeywordOverlap(words1, words2) ==
    IF words1 \cup words2 = {} THEN [num |-> 0, den |-> 1]
    ELSE [num |-> Cardinality(words1 \cap words2),
          den |-> Cardinality(words1 \cup words2)]

\* a.score > b.score
ScoreAbove(a, b) == a.score.num * b.score.den > b.score.num * a.score.den

\* sort((a, b) => b.score - a.score): stable, highest score first
RECURSIVE sortByScore(_)
sortByScore(scored) ==
    IF scored = <<>> THEN <<>>
    ELSE LET rest == sortByScore(SubSeq(scored, 1, Len(scored) - 1))
             x == scored[Len(scored)]
         IN  SelectSeq(rest, LAMBDA y : ~ScoreAbove(x, y))
                \o <<x>> \o SelectSeq(rest, LAMBDA y : ScoreAbove(x, y))

scoreAll(newWords, existingObjectives) ==
    [i \in DOMAIN existingObjectives |->
        [id |-> existingObjectives[i].id,
         text |-> existingObjectives[i].text,
         score |-> calculateKeywordOverlap(newWords,
                      extractWords(existingObjectives[i].text))]]

withoutScore(scored) ==
    [i \in DOMAIN scored |-> [id |-> scored[i].id, text |-> scored[i].text]]

\* slice(0, 5)
topFive(scored) ==
    SubSeq(scored, 1, IF Len(scored) < 5 THEN Len(scored) ELSE 5)

\* the top five without the sort
findRelatedByKeywordsUnsorted(newObjectiveText, existingObjectives) ==
    withoutScore(topFive(SelectSeq(
        scoreAll(extractWords(newObjectiveText), existingObjectives),
        LAMBDA obj : obj.score.num > 0)))

findRelatedByKeywords(newObjectiveText, existingObjectives) ==
    withoutScore(topFive(SelectSeq(
        sortByScore(scoreAll(extractWords(newObjectiveText), existingObjectives)),
        LAMBDA obj : obj.score.num > 0)))

\* an embedding search that finds nothing
findRelatedByEmbeddingsEmpty(newObjectiveText, existingObjectives) == <<>>

\* not implemented: falls back to the keywords
findRelatedByEmbeddings(newObjectiveText, existingObjectives) ==
    findRelatedByKeywords(newObjectiveText, existingObjectives)

findRelatedObjectives(newObjectiveText, existingObjectives, EMBEDDINGS_ENABLED) ==
    IF Len(existingObjectives) = 0 THEN <<>>
    ELSE IF EMBEDDINGS_ENABLED
    THEN findRelatedByEmbeddings(newObjectiveText, existingObjectives)
    ELSE findRelatedByKeywords(newObjectiveText, existingObjectives)

-----------------------------------------------------------------------------
(* State *)

Db == [entries |-> entries, objectives |-> objectives,
       relationships |-> relationships, nextRelId |-> nextRelId]

SetDb(db) ==
    /\ entries' = db.entries
    /\ objectives' = db.objectives
    /\ relationships' = db.relationships
    /\ nextRelId' = db.nextRelId

\* the rows and identifiers the model lets the store come to
WithinBounds(db) ==
    /\ Len(db.objectives) <= MaxObjectives
    /\ Cardinality(db.entries) <= MaxEntries
    /\ db.nextRelId <= MaxRelIds + 1

NoAnswer == [op |-> "none"]

Idle == [pc |-> "idle"]

Slots == {1, 2}

NoExtraction == [objectives |-> <<>>, relationships |-> <<>>]

Init ==
    /\ entries = {}
    /\ objectives = <<>>
    /\ relationships = {}
    /\ nextRelId = 1
    /\ calls = [p \in Slots |-> Idle]
    /\ extraction = NoExtraction
    /\ last = NoAnswer

-----------------------------------------------------------------------------
(* POST /extract-and-store, run without interleaving *)

\* the answer of the catch block: status 500
failedAnswer(undone) ==
    [op |-> "ingest", outcome |-> "error",
     totalInserted |-> 0,
     duplicatesSkipped |-> 0,
     relationshipsCreated |-> 0,
     undone |-> undone]

\* the answer of the route, given the drafts and the writer's result;
\* undone counts the storage calls a failed transaction had made
storedAnswer(drafts, res) ==
    IF res.ok
    THEN [op |-> "ingest", outcome |-> "stored",
          totalInserted |->
              Len(getObjectivesByIds(res.db,
                    [i \in DOMAIN res.objectives |-> res.objectives[i].id])),
          duplicatesSkipped |-> drafts.duplicates,
          relationshipsCreated |-> Len(res.relationships),
          undone |-> 0]
    ELSE failedAnswer(res.calls)

nothingAnswer(drafts) ==
    [op |-> "ingest", outcome |-> "nothing",
     totalInserted |-> 0,
     duplicatesSkipped |-> drafts.duplicates,
     relationshipsCreated |-> 0,
     undone |-> 0]

ExtractAndStore(ext, fault) ==
    IF prepareThrows(ext)
    THEN /\ fault = 0
         /\ last' = failedAnswer(0)
         /\ UNCHANGED <<entries, objectives, relationships, nextRelId>>
    ELSE
    LET drafts == prepareObjectiveDrafts(ext, objectives)
    IN  IF drafts.objectives = <<>> /\ drafts.relationships = <<>>
        THEN /\ fault = 0
             /\ last' = nothingAnswer(drafts)
             /\ UNCHANGED <<entries, objectives, relationships, nextRelId>>
        ELSE LET res == createKnowledgeGraphEntry(Db, drafts.objectives,
                                                  drafts.relationships, fault)
             IN  /\ fault <= res.calls + 1
                 /\ fault # 0 => ~res.ok
                 /\ SetDb(res.db)
                 /\ last' = storedAnswer(drafts, res)

-----------------------------------------------------------------------------
(* Relationship records and routes *)

\* prisma.objectiveRelationship.create: [code, db]; P2002 is the unique
\* key violation, P2003 the foreign key violation
createObjectiveRelationshipRecord(db, payload) ==
    IF RowsWithKey(db, payload.fromId, payload.toId, payload.type) # {}
    THEN [code |-> "P2002", db |-> db]
    ELSE IF ~ForeignKeyHolds(db, payload.fromId, payload.toId)
    THEN [code |-> "P2003", db |-> db]
    ELSE [code |-> "ok",
          db |-> insertRelationship(db, payload.fromId, payload.toId,
                    [type |-> payload.type,
                     rationale |-> IF payload.rationale = AbsentText
                                   THEN NullText ELSE payload.rationale,
                     weight |-> Field(payload, "weight", Null)]).db]

\* prisma.objectiveRelationship.update({ where: { id }, data }): P2025 when
\* no row has the id
updateObjectiveRelationshipRecord(db, id, payload) ==
    LET found == {r \in db.relationships : r.id = id}
    IN  IF found = {} THEN [code |-> "P2025", db |-> db]
        ELSE LET old == CHOOSE r \in found : TRUE
                 new == [old EXCEPT
                            !.toId = IF payload.toId = NullId THEN @ ELSE payload.toId,
                            !.type = IF payload.type = NullStr THEN @ ELSE payload.type,
                            !.rationale = IF payload.rationale = AbsentText
                                          THEN @ ELSE payload.rationale]
                 others == db.relationships \ {old}
             IN  IF \E r \in others : /\ r.fromId = new.fromId
                                       /\ r.toId = new.toId
                                       /\ r.type = new.type
                 THEN [code |-> "P2002", db |-> db]
                 ELSE IF ~ForeignKeyHolds(db, new.fromId, new.toId)
                 THEN [code |-> "P2003", db |-> db]
                 ELSE [code |-> "ok",
                       db |-> [db EXCEPT !.relationships = others \cup {new}]]

\* a delete that takes the row's target objective with it
deleteCascading(db, id) ==
    LET found == {r \in db.relationships : r.id = id}
    IN  IF found = {} THEN [code |-> "P2025", db |-> db]
        ELSE [code |-> "ok",
              db |-> [db EXCEPT !.relationships = @ \ found,
                                !.objectives = SelectSeq(@, LAMBDA o :
                                    \A r \in found : o.id # r.toId)]]

\* prisma.objectiveRelationship.delete({ where: { id } })
deleteObjectiveRelationshipRecord(db, id) ==
    LET found == {r \in db.relationships : r.id = id}
    IN  IF found = {} THEN [code |-> "P2025", db |-> db]
        ELSE [code |-> "ok", db |-> [db EXCEPT !.relationships = @ \ found]]

\* the routes without their P2002 and P2025 branches
statusOfUnclassified(code, okStatus) == IF code = "ok" THEN okStatus ELSE 500

\* HTTP status of a route for the record function's outcome
statusOf(code, okStatus) ==
    CASE code = "ok" -> okStatus
      [] code = "P2002" -> 409
      [] code = "P2025" -> 404
      [] OTHER -> 500

\* createRelationshipSchema.superRefine
createSchemaAccepts(payload) == payload.fromId # payload.toId

\* POST /relationships
CreateRelationship(payload) ==
    IF ~createSchemaAccepts(payload)
    THEN /\ last' = [op |-> "createRelationship", status |-> 400]
         /\ UNCHANGED <<entries, objectives, relationships, nextRelId>>
    ELSE LET res == createObjectiveRelationshipRecord(Db, payload)
         IN  /\ SetDb(res.db)
             /\ last' = [op |-> "createRelationship",
                         status |-> statusOf(res.code, 201)]

\* the route without its check
updateTargetCheckOff(db, id, payload) == 0

\* the route's check of the new target against the stored source
\* [status, proceed]
updateTargetCheck(db, id, payload) ==
    IF payload.toId = NullId THEN 0
    ELSE LET found == {r \in db.relationships : r.id = id}
         IN  IF found = {} THEN 404
             ELSE IF (CHOOSE r \in found : TRUE).fromId = payload.toId THEN 400
             ELSE 0

\* PATCH /relationships/:id
UpdateRelationship(id, payload) ==
    LET refused == updateTargetCheck(Db, id, payload)
    IN  IF refused # 0
        THEN /\ last' = [op |-> "updateRelationship", status |-> refused]
             /\ UNCHANGED <<entries, objectives, relationships, nextRelId>>
        ELSE LET res == updateObjectiveRelationshipRecord(Db, id, payload)
             IN  /\ SetDb(res.db)
                 /\ last' = [op |-> "updateRelationship",
                             status |-> statusOf(res.code, 200)]

\* DELETE /relationships/:id
DeleteRelationship(id) ==
    LET res == deleteObjectiveRelationshipRecord(Db, id)
    IN  /\ SetDb(res.db)
        /\ last' = [op |-> "deleteRelationship",
                    status |-> statusOf(res.code, 200)]

-----------------------------------------------------------------------------
(* Inputs *)

MaxBatch == 2           \* objective candidates of one extraction
MaxFault == 5           \* storage calls of a transaction that may be failed

BatchKeys == <<"OBJ_A", "OBJ_B", "OBJ_C", "OBJ_D">>

Statements == {<<"a", " ", "b">>, <<"a", " ", " ", "b">>, <<"b">>}

TypeStrings == {"supports", "unblocks"}

EnumTypes == {"SUPPORTS", "DEPENDS_ON"}

\* candidate lists of at most n objectives, keyed by position
ObjectiveLists(statements, n) ==
    UNION {{[i \in 1..k |-> [key |-> BatchKeys[i], statement |-> f[i]]] :
                f \in [1..k -> statements]} : k \in 0..n}

RefsFor(k, db) ==
    {KeyRef(BatchKeys[i]) : i \in 1..k}
        \cup {ExistingRef(id) : id \in ObjectiveIds(db) \cup {GhostId}}

\* the reference to no stored objective is tried as a target only
RelationshipCandidates(refs, types, rationales) ==
    {[from |-> f, to |-> t, type |-> ty, rationale |-> ra] :
        f \in refs \ {ExistingRef(GhostId)}, t \in refs,
        ty \in types, ra \in rationales}

\* two relationships that name the same endpoints
RelationshipPairs(cands) ==
    {l \in {<<c, d>> : c \in cands, d \in cands} :
        l[1].from = l[2].from /\ l[1].to = l[2].to}

\* extractions of objectives alone
ObjectiveExtractions ==
    {[objectives |-> ol, relationships |-> <<>>] :
        ol \in ObjectiveLists(Statements, MaxBatch)}

\* extractions of relationships between stored objectives
ExistingLinkExtractions(db, types, rationales) ==
    LET cands == RelationshipCandidates(RefsFor(0, db), types, rationales)
    IN  {[objectives |-> <<>>, relationships |-> rl] :
            rl \in {<<c>> : c \in cands} \cup RelationshipPairs(cands)}

\* extractions of new objectives with one relationship
LinkedObjectiveLists ==
    {<<[key |-> BatchKeys[1], statement |-> <<"b">>]>>,
     <<[key |-> BatchKeys[1], statement |-> <<"a", " ", "b">>],
       [key |-> BatchKeys[2], statement |-> <<"b">>]>>}

LinkedExtractions(db, types, rationales, lists) ==
    UNION {{[objectives |-> ol, relationships |-> <<c>>] :
                c \in RelationshipCandidates(RefsFor(Len(ol), db), types,
                                             rationales)} :
           ol \in lists}

Extractions(db) ==
    ObjectiveExtractions
        \cup ExistingLinkExtractions(db, TypeStrings, {<<"r">>})
        \cup LinkedExtractions(db, {"unblocks"}, {<<"r">>}, LinkedObjectiveLists)

\* extractions whose transaction makes several storage calls
FaultExtractions(db) ==
    LET ol == <<[key |-> BatchKeys[1], statement |-> <<"a", " ", "b">>],
                [key |-> BatchKeys[2], statement |-> <<"b">>]>>
        link(f, t, ty) == [from |-> KeyRef(BatchKeys[f]), to |-> KeyRef(BatchKeys[t]),
                           type |-> ty, rationale |-> <<"r">>]
    IN  {[objectives |-> ol, relationships |-> rl] :
            rl \in {<<link(1, 2, "supports"), link(2, 1, "supports")>>,
                    <<link(1, 2, "supports"), link(1, 2, "unblocks")>>}}

CreatePayloads(db, types, rationales) ==
    {[fromId |-> f, toId |-> t, type |-> ty, rationale |-> ra] :
        f \in ObjectiveIds(db), t \in ObjectiveIds(db) \cup {GhostId},
        ty \in types, ra \in rationales}

UpdatePayloads(db, types, rationales) ==
    {p \in [toId : ObjectiveIds(db) \cup {GhostId, NullId},
            type : types \cup {NullStr},
            rationale : rationales \cup {AbsentText}] :
        Cardinality({f \in {"toId", "type", "rationale"} :
            p[f] # (CASE f = "toId" -> NullId [] f = "type" -> NullStr
                      [] OTHER -> AbsentText)}) = 1}

RelIds == 1..MaxRelIds

-----------------------------------------------------------------------------
(* The routes one after the other *)

Ingest ==
    /\ \E ext \in Extractions(Db) : ExtractAndStore(ext, 0)
    /\ WithinBounds(Db)'
    /\ UNCHANGED <<calls, extraction>>

IngestFault ==
    /\ \E ext \in FaultExtractions(Db), fault \in 1..MaxFault :
          ExtractAndStore(ext, fault)
    /\ WithinBounds(Db)'
    /\ UNCHANGED <<calls, extraction>>

Create ==
    /\ \E payload \in CreatePayloads(Db, EnumTypes, {<<"r">>}) :
          CreateRelationship(payload)
    /\ WithinBounds(Db)'
    /\ UNCHANGED <<calls, extraction>>

Update ==
    /\ \E id \in RelIds, payload \in UpdatePayloads(Db, EnumTypes, {}) :
          UpdateRelationship(id, payload)
    /\ UNCHANGED <<calls, extraction>>

Delete ==
    /\ \E id \in RelIds : DeleteRelationship(id)
    /\ UNCHANGED <<calls, extraction>>

Next == Ingest \/ IngestFault \/ Create \/ Update \/ Delete

Spec == Init /\ [][Next]_vars

-----------------------------------------------------------------------------
(* The deduplication and reference filtering stage on its own *)

PrepMaxObjectives == 3     \* objective candidates of an extraction
PrepMaxRelationships == 2  \* relationship candidates of an extraction

PrepStatements ==
    {<<>>, <<" ">>, <<"a", " ", "b">>, <<"A", " ", "b">>,
     <<"a", " ", " ", "b">>, <<"b", " ">>}

PrepStores ==
    {<<>>,
     <<[id |-> 1, text |-> <<"a", " ", "b">>, status |-> "PROPOSED",
        priority |-> "MEDIUM", confidence |-> Null, entryId |-> 1]>>,
     <<[id |-> 1, text |-> <<"A", " ", " ", "b">>, status |-> "PROPOSED",
        priority |-> "MEDIUM", confidence |-> Null, entryId |-> 1]>>}

PrepRefs == {KeyRef(BatchKeys[1]), KeyRef(BatchKeys[2]), ExistingRef(1), <<>>}

PrepRelationshipLists ==
    UNION {[1..k -> RelationshipCandidates(PrepRefs, {"unblocks", "causes"},
                                           {<<"r", " ">>})
                    \cup RelationshipCandidates(PrepRefs \ {<<>>}, {""}, {NullText})] :
           k \in 0..PrepMaxRelationships}

PrepExtractions ==
    {[objectives |-> ol, relationships |-> <<>>] :
        ol \in ObjectiveLists(PrepStatements, PrepMaxObjectives)}
    \cup
    {[objectives |-> ol, relationships |-> rl] :
        ol \in ObjectiveLists({<<" ">>, <<"b", " ">>}, 2),
        rl \in PrepRelationshipLists}

InitPrep ==
    /\ entries = {1}
    /\ objectives \in PrepStores
    /\ relationships = {}
    /\ nextRelId = 1
    /\ calls = [p \in Slots |-> Idle]
    /\ extraction \in PrepExtractions
    /\ last = NoAnswer

PrepareStage ==
    /\ last = NoAnswer
    /\ IF prepareThrows(extraction)
       THEN last' = [op |-> "prepare", raised |-> TRUE,
                     objectives |-> <<>>, relationships |-> <<>>,
                     duplicates |-> 0]
       ELSE LET drafts == prepareObjectiveDrafts(extraction, objectives)
            IN  last' = [op |-> "prepare", raised |-> FALSE,
                         objectives |-> drafts.objectives,
                         relationships |-> drafts.relationships,
                         duplicates |-> drafts.duplicates]
    /\ UNCHANGED <<entries, objectives, relationships, nextRelId, calls, extraction>>

NextPrep == PrepareStage

SpecPrep == InitPrep /\ [][NextPrep]_vars

-----------------------------------------------------------------------------
(* Properties of the stage *)

NormalizedOf(i) == normalize(extraction.objectives[i].statement).normalized

NonEmptyCandidates == {i \in DOMAIN extraction.objectives : NormalizedOf(i) # <<>>}

EmptyCandidates == DOMAIN extraction.objectives \ NonEmptyCandidates

\* the candidate an output draft came from (keys are distinct in a batch)
SourceOf(draft) ==
    CHOOSE i \in DOMAIN extraction.objectives : extraction.objectives[i].key = draft.key

Survivors == {SourceOf(last.objectives[j]) : j \in DOMAIN last.objectives}

\* C7: within one call, of the candidates with one (non-empty) normalized
\* text at most the first survives, and it does when the store is empty;
\* every other one of them counts once as a duplicate; the survivors are in
\* input order and carry the trimmed statement.
C7_FirstWinsInOrder ==
    last.op = "prepare" =>
        /\ \A j \in DOMAIN last.objectives :
              /\ \E i \in DOMAIN extraction.objectives :
                    extraction.objectives[i].key = last.objectives[j].key
              /\ last.objectives[j].text =
                    Trim(extraction.objectives[SourceOf(last.objectives[j])].statement)
        /\ \A j, k \in DOMAIN last.objectives :
              j < k => SourceOf(last.objectives[j]) < SourceOf(last.objectives[k])
        /\ \A i, k \in NonEmptyCandidates :
              (i < k /\ NormalizedOf(i) = NormalizedOf(k)) => k \notin Survivors
        /\ objectives = <<>> =>
              \A i \in NonEmptyCandidates :
                  (\A h \in NonEmptyCandidates : h < i => NormalizedOf(h) # NormalizedOf(i))
                      => i \in Survivors
        /\ last.duplicates = Cardinality(NonEmptyCandidates \ Survivors)

C7_Witness ==
    /\ last.op = "prepare"
    /\ objectives = <<>>
    /\ Len(extraction.objectives) = 3
    /\ NormalizedOf(1) = NormalizedOf(2)
    /\ NormalizedOf(3) # NormalizedOf(1)
    /\ EmptyCandidates = {}
    /\ Len(last.objectives) = 2
    /\ last.duplicates = 1

\* C8 as claimed: survivors plus reported duplicates make up the candidates
C8_EveryDropIsCounted ==
    last.op = "prepare" =>
        Len(last.objectives) + last.duplicates = Len(extraction.objectives)

\* C8 as the code has it: an empty or whitespace-only statement is dropped
\* and is not counted, so survivors, duplicates and empty statements make
\* up the candidates.
C8_EmptyDroppedUncounted ==
    last.op = "prepare" =>
        /\ Survivors \cap EmptyCandidates = {}
        /\ Len(last.objectives) + last.duplicates + Cardinality(EmptyCandidates)
              = Len(extraction.objectives)

C8_Witness ==
    /\ last.op = "prepare"
    /\ EmptyCandidates # {}
    /\ NonEmptyCandidates # {}
    /\ last.duplicates = 0

\* what the claim calls a valid endpoint
EndpointValid(ref) ==
    \/ (ref # <<>> /\ ref[1] = "existing:")
    \/ \E j \in DOMAIN last.objectives : ref = <<last.objectives[j].key>>

Classifies(type) == parseRelationshipType(type) \in ObjectiveRelationshipType

\* the members of a set of positions, ascending
RECURSIVE Ascending(_)
Ascending(S) ==
    IF S = {} THEN <<>>
    ELSE LET m == CHOOSE x \in S : \A y \in S : x <= y
         IN  <<m>> \o Ascending(S \ {m})

AsDraft(c) ==
    [from |-> c.from, to |-> c.to, type |-> parseRelationshipType(c.type),
     rationale |-> IF c.rationale = NullText THEN NullText ELSE Trim(c.rationale),
     weight |-> Null]

\* the drafts of the candidates at the positions S, in input order
DraftsAt(S) ==
    LET order == Ascending(S)
    IN  [j \in DOMAIN order |-> AsDraft(extraction.relationships[order[j]])]

ValidCandidates ==
    {i \in DOMAIN extraction.relationships :
        /\ Classifies(extraction.relationships[i].type)
        /\ EndpointValid(extraction.relationships[i].from)
        /\ EndpointValid(extraction.relationships[i].to)}

-----------------------------------------------------------------------------
(* Properties of the store under the routes run one after the other *)

\* C1: no two stored objectives have the same normalized text
C1_NormalizedTextsDistinct ==
    \A i, j \in DOMAIN objectives :
        i # j => normalize(objectives[i].text).normalized
                    # normalize(objectives[j].text).normalized

\* C2: an ingest whose transaction fails leaves no KnowledgeEntry, objective
\* or relationship write behind, whatever it wrote before the failing call
C2_FailedIngestWritesNothing ==
    [][(last'.op = "ingest" /\ last'.outcome = "error") =>
            /\ entries' = entries
            /\ objectives' = objectives
            /\ relationships' = relationships]_vars

\* the second relationship upsert failed after the entry, two objectives
\* and the first relationship were written
C2_Witness ==
    /\ last.op = "ingest"
    /\ last.outcome = "error"
    /\ last.undone = 4
    /\ objectives = <<>>
    /\ entries = {}

\* C3: no stored relationship has its source as its target
C3_NoSelfLoop == \A r \in relationships : r.fromId # r.toId

\* an ingest reached the writer with relationship drafts alone and every one
\* of them resolved to a single objective
C3_Witness ==
    /\ last.op = "ingest"
    /\ last.outcome = "stored"
    /\ last.totalInserted = 0
    /\ last.relationshipsCreated = 0
    /\ objectives # <<>>

\* C4: both endpoints of every stored relationship are stored objectives
C4_EndpointsStored ==
    \A r \in relationships :
        /\ \E i \in DOMAIN objectives : objectives[i].id = r.fromId
        /\ \E i \in DOMAIN objectives : objectives[i].id = r.toId

\* an ingest committed an objective together with a relationship
C4_Witness ==
    /\ last.op = "ingest"
    /\ last.outcome = "stored"
    /\ last.totalInserted >= 1
    /\ last.relationshipsCreated >= 1
    /\ relationships # {}

\* C5: at most one stored relationship per (source, target, type)
C5_OneRowPerTriple ==
    \A r1, r2 \in relationships :
        (r1.fromId = r2.fromId /\ r1.toId = r2.toId /\ r1.type = r2.type)
            => r1 = r2

\* an ingest upserted one triple twice and one row stands for it
C5_Witness ==
    /\ last.op = "ingest"
    /\ last.outcome = "stored"
    /\ last.relationshipsCreated = 2
    /\ Cardinality(relationships) = 1

-----------------------------------------------------------------------------
(* Two POST /extract-and-store requests in flight.  A request awaits        *)
(* between prepareObjectiveDrafts, which reads the store, and               *)
(* createKnowledgeGraphEntry, whose transaction writes it.                  *)

ConcurrentExtractions ==
    {[objectives |-> ol, relationships |-> <<>>] :
        ol \in ObjectiveLists({<<"a", " ", "b">>, <<"A", " ", "b">>, <<"b">>}, MaxBatch)}

\* up to the await of createKnowledgeGraphEntry
Begin(p) ==
    /\ calls[p].pc = "idle"
    /\ \E ext \in ConcurrentExtractions :
          LET drafts == prepareObjectiveDrafts(ext, objectives)
          IN  IF drafts.objectives = <<>> /\ drafts.relationships = <<>>
              THEN /\ last' = nothingAnswer(drafts)
                   /\ UNCHANGED calls
              ELSE /\ calls' = [calls EXCEPT ![p] = [pc |-> "prepared", drafts |-> drafts]]
                   /\ UNCHANGED last
    /\ UNCHANGED <<entries, objectives, relationships, nextRelId, extraction>>

\* the transaction and the answer
Write(p) ==
    /\ calls[p].pc = "prepared"
    /\ LET drafts == calls[p].drafts
           res == createKnowledgeGraphEntry(Db, drafts.objectives,
                                            drafts.relationships, 0)
       IN  /\ SetDb(res.db)
           /\ last' = storedAnswer(drafts, res)
    /\ WithinBounds(Db)'
    /\ calls' = [calls EXCEPT ![p] = Idle]
    /\ UNCHANGED extraction

NextConc == \E p \in Slots : Begin(p) \/ Write(p)

SpecConc == Init /\ [][NextConc]_vars

\* C6: two requests in flight never both insert an objective of one
\* statement: no two stored objectives have the same text up to case
C6_ConcurrentIngestsKeepTextsDistinct ==
    \A i, j \in DOMAIN objectives :
        i # j => ~EqualsInsensitive(objectives[i].text, objectives[j].text)

-----------------------------------------------------------------------------
(* Repeated submissions of a relationship between two stored objectives.   *)
(* The store starts as one ingestion of two objectives leaves it, and      *)
(* extraction records what the latest request submitted.                   *)

UpsertMaxEntries == 3   \* KnowledgeEntry rows the store may hold here

UpsertRationales == {<<"r">>, <<"s">>}

InitUpsert ==
    /\ entries = {1}
    /\ objectives = <<[id |-> 1, text |-> <<"a", " ", "b">>, status |-> "PROPOSED",
                       priority |-> "MEDIUM", confidence |-> Null, entryId |-> 1],
                      [id |-> 2, text |-> <<"b">>, status |-> "PROPOSED",
                       priority |-> "MEDIUM", confidence |-> Null, entryId |-> 1]>>
    /\ relationships = {}
    /\ nextRelId = 1
    /\ calls = [p \in Slots |-> Idle]
    /\ extraction = NoExtraction
    /\ last = NoAnswer

UpsertBounds ==
    /\ Cardinality(entries') <= UpsertMaxEntries
    /\ nextRelId' <= MaxRelIds + 1

IngestLinks ==
    /\ \E ext \in ExistingLinkExtractions(Db, {"unblocks"},
                                          UpsertRationales \cup {NullText}) :
          /\ \A i \in DOMAIN ext.relationships :
                ext.relationships[i].to # ExistingRef(GhostId)
          /\ ExtractAndStore(ext, 0)
          /\ extraction' = ext
    /\ UpsertBounds
    /\ UNCHANGED calls

CreateLink ==
    /\ \E payload \in CreatePayloads(Db, {"DEPENDS_ON"}, UpsertRationales) :
          /\ CreateRelationship(payload)
          /\ extraction' =
                [objectives |-> <<>>,
                 relationships |-> <<[from |-> ExistingRef(payload.fromId),
                                      to |-> ExistingRef(payload.toId),
                                      type |-> payload.type,
                                      rationale |-> payload.rationale]>>]
    /\ UpsertBounds
    /\ UNCHANGED calls

NextUpsert == IngestLinks \/ CreateLink

SpecUpsert == InitUpsert /\ [][NextUpsert]_vars

\* the rows of the triple a submitted relationship names
RowsOf(rows, c) ==
    {r \in rows : /\ r.fromId = c.from[2] /\ r.toId = c.to[2]
                  /\ r.type = parseRelationshipType(c.type)}

SameTriple(c, d) == c.from = d.from /\ c.to = d.to /\ c.type = d.type

\* position i of the submission repeats a triple: the triple is stored
\* already, or an earlier position of the submission names it
Resubmits(rows, subs, i) ==
    /\ subs[i].from # subs[i].to
    /\ subs[i].rationale # NullText
    /\ \A k \in DOMAIN subs : k > i => ~SameTriple(subs[k], subs[i])
    /\ \/ \E r \in RowsOf(rows, subs[i]) : r.rationale # subs[i].rationale
       \/ \E k \in DOMAIN subs :
             /\ k < i /\ SameTriple(subs[k], subs[i])
             /\ subs[k].rationale # subs[i].rationale

-----------------------------------------------------------------------------
(* The stage on extractions whose candidates lack fields *)

ShapeMaxObjectives == 3    \* objective candidates of an extraction

ShapeStatements == {AbsentText, <<"b">>, <<"a", " ", "b">>}

ShapeRefs == {AbsentText, KeyRef(BatchKeys[1]), ExistingRef(1)}

ShapeExtractions ==
    {[objectives |-> ol, relationships |-> <<>>] :
        ol \in ObjectiveLists(ShapeStatements, ShapeMaxObjectives)}
    \cup
    {[objectives |-> ol, relationships |-> <<c>>] :
        ol \in ObjectiveLists({<<"b">>}, 1),
        c \in {[from |-> f, to |-> t, type |-> ty, rationale |-> NullText] :
                  f \in ShapeRefs, t \in ShapeRefs, ty \in {"unblocks", NullStr}}}

InitShape ==
    /\ entries = {}
    /\ objectives = <<>>
    /\ relationships = {}
    /\ nextRelId = 1
    /\ calls = [p \in Slots |-> Idle]
    /\ extraction \in ShapeExtractions
    /\ last = NoAnswer

SpecShape == InitShape /\ [][NextPrep]_vars

WellFormed(i) ==
    /\ extraction.objectives[i].statement # AbsentText
    /\ Trim(extraction.objectives[i].statement) # <<>>

\* C11: whatever the candidates lack, the stage completes, and every
\* well-formed objective candidate of the batch is output or counted as a
\* duplicate of one that is
C11_StageNeverRaises ==
    last.op = "prepare" =>
        /\ ~last.raised
        /\ \A i \in DOMAIN extraction.objectives :
              WellFormed(i) =>
                 \E j \in DOMAIN last.objectives :
                    normalize(last.objectives[j].text).normalized
                        = normalize(extraction.objectives[i].statement).normalized

-----------------------------------------------------------------------------
(* Ingestion with no storage fault and no other writer *)

NextIngest == Ingest

SpecIngest == Init /\ [][NextIngest]_vars

\* C12: with no storage fault and no concurrent writer every ingest
\* commits (or finds nothing to store); the writer aborts for no defect of
\* the candidates, a reference to an identifier of no stored objective
\* included
C12_WriterCommitsWithoutFault ==
    last.op = "ingest" => last.outcome \in {"stored", "nothing"}

-----------------------------------------------------------------------------
(* The first ingestion into an empty store, of candidates that carry       *)
(* status, priority, confidence and weight; extraction records what the    *)
(* request submitted.                                                      *)

FieldsMaxLen == 2       \* characters of a generated numeric string

NumericChars == {"0", "1", "5", ".", "-", "%"}

NumericStrings ==
    UNION {[1..k -> NumericChars] : k \in 1..FieldsMaxLen}
        \cup {<<"0", ".", "4", "2">>, <<"1", "5", "0">>, <<"5", "0", "%">>,
              <<"1", ".", "5">>, <<"-", "0", ".", "5">>, <<"a", "b">>}

Numbers ==
    {Num(0 - 5 * Scale), Num(0), Num(42 * 100), Num(Scale), Num(150 * 100),
     Num(50 * Scale), Num(150 * Scale)}

NumericValues == {Null} \cup Numbers \cup {Str(s) : s \in NumericStrings}

Lowered(s) ==
    [i \in 1..Len(s) |->
        IF \E k \in DOMAIN UpperLetters : UpperLetters[k] = s[i]
        THEN LowerLetters[CHOOSE k \in DOMAIN UpperLetters : UpperLetters[k] = s[i]]
        ELSE s[i]]

Capitalized(s) == <<Head(s)>> \o Tail(Lowered(s))

\* a word as the extractor may write it
Spellings(word) ==
    LET cased == {Spell[word], Lowered(Spell[word]), Capitalized(Spell[word])}
    IN  cased \cup {<<" ">> \o v : v \in cased} \cup {v \o <<" ">> : v \in cased}

EnumTexts ==
    UNION {Spellings(w) : w \in DOMAIN Spell} \cup {<<>>, <<" ">>, NullText}

FieldCandidates ==
    LET base == [key |-> BatchKeys[1], statement |-> <<"b">>]
    IN  {base}
        \cup {[key |-> base.key, statement |-> base.statement, status |-> t] :
                t \in EnumTexts}
        \cup {[key |-> base.key, statement |-> base.statement, priority |-> t] :
                t \in EnumTexts}
        \cup {[key |-> base.key, statement |-> base.statement, confidence |-> v] :
                v \in NumericValues}

WeightedLinks ==
    LET base == [from |-> KeyRef(BatchKeys[1]), to |-> KeyRef(BatchKeys[2]),
                 type |-> "supports", rationale |-> NullText]
    IN  {base}
        \cup {[from |-> base.from, to |-> base.to, type |-> base.type,
               rationale |-> base.rationale, weight |-> v] : v \in NumericValues}

IngestFields ==
    /\ last = NoAnswer
    /\ \E c \in FieldCandidates :
          LET ext == [objectives |-> <<c>>, relationships |-> <<>>]
          IN  ExtractAndStore(ext, 0) /\ extraction' = ext
    /\ UNCHANGED calls

IngestWeighted ==
    /\ last = NoAnswer
    /\ \E link \in WeightedLinks :
          LET ext == [objectives |-> <<[key |-> BatchKeys[1], statement |-> <<"a", " ", "b">>],
                                       [key |-> BatchKeys[2], statement |-> <<"b">>]>>, relationships |-> <<link>>]
          IN  ExtractAndStore(ext, 0) /\ extraction' = ext
    /\ UNCHANGED calls

NextFields == IngestFields \/ IngestWeighted

SpecFields == Init /\ [][NextFields]_vars

\* the request stored one objective from a candidate carrying the field
StoredWith(field) ==
    /\ last.op = "ingest" /\ last.outcome = "stored"
    /\ Len(extraction.objectives) = 1 /\ Len(objectives) = 1
    /\ field \in DOMAIN extraction.objectives[1]

\* the request stored one relationship from a candidate carrying a weight
LinkedWithWeight ==
    /\ last.op = "ingest" /\ last.outcome = "stored"
    /\ Len(extraction.relationships) = 1 /\ Cardinality(relationships) = 1
    /\ "weight" \in DOMAIN extraction.relationships[1]

InUnitInterval(value) ==
    value = Null \/ (value.kind = "number" /\ 0 <= value.v /\ value.v <= Scale)

\* C13: a persisted confidence is absent or within [0,1]; 150 is stored as
\* 1.0, -5 as 0.0 and 0.42 as it is, given as a number or as a string
C13_ConfidenceClamped ==
    StoredWith("confidence") =>
        LET given == extraction.objectives[1].confidence
            stored == objectives[1].confidence
        IN  /\ InUnitInterval(stored)
            /\ given \in {Num(150 * Scale), Str(<<"1", "5", "0">>)} => stored = Num(Scale)
            /\ given \in {Num(0 - 5 * Scale), Str(<<"-", "5">>)} => stored = Num(0)
            /\ given \in {Num(42 * 100), Str(<<"0", ".", "4", "2">>)} => stored = Num(42 * 100)

\* values above 1 and what the percentage rule makes of them
PercentCases ==
    {<<Num(50 * Scale), Num(50 * 100)>>, <<Str(<<"5", "0">>), Num(50 * 100)>>,
     <<Num(150 * 100), Num(150)>>, <<Str(<<"1", ".", "5">>), Num(150)>>,
     <<Num(150 * Scale), Num(Scale)>>, <<Str(<<"1", "5", "0">>), Num(Scale)>>}

\* C14: a confidence or a weight above 1 is divided by 100 before it is
\* clamped, given as a number or as a string
C14_PercentagesDivided ==
    \A case \in PercentCases :
        /\ (StoredWith("confidence") /\ extraction.objectives[1].confidence = case[1])
              => objectives[1].confidence = case[2]
        /\ (LinkedWithWeight /\ extraction.relationships[1].weight = case[1])
              => \A r \in relationships : r.weight = case[2]

\* the synonyms of the specification and the status each stands for
ClaimedStatus ==
    ("IN PROGRESS" :> "ACTIVE") @@ ("ACTIVE" :> "ACTIVE") @@
    ("DONE" :> "COMPLETE") @@ ("COMPLETE" :> "COMPLETE") @@
    ("BLOCKED" :> "BLOCKED") @@ ("ON HOLD" :> "BLOCKED") @@
    ("PLANNED" :> "PLANNED") @@ ("PLANNING" :> "PLANNED")

UnrecognizedStatus ==
    {"SOMEDAY", "URGENT", "HIGH", "MEDIUM", "LOW", "P0", "P1", "P2",
     "CRITICAL", "HIGHEST"}

UnrecognizedPriority ==
    {"SOMEDAY", "URGENT", "P1", "ACTIVE", "DONE", "ON HOLD", "BLOCKED"}

\* C16: every stored objective has a status and a priority of the enums; a
\* candidate without status is stored as PROPOSED, a candidate without
\* priority or with a priority that is none as MEDIUM
C16_EnumDefaults ==
    /\ \A i \in DOMAIN objectives :
          /\ objectives[i].status \in ObjectiveStatus
          /\ objectives[i].priority \in ObjectivePriority
    /\ (/\ last.op = "ingest" /\ last.outcome = "stored"
        /\ Len(extraction.objectives) = 1 /\ Len(objectives) = 1) =>
          LET given == extraction.objectives[1]
              stored == objectives[1]
          IN  /\ ("status" \notin DOMAIN given \/ Field(given, "status", <<>>) = NullText)
                    => stored.status = "PROPOSED"
              /\ ("priority" \notin DOMAIN given \/ Field(given, "priority", <<>>) = NullText)
                    => stored.priority = "MEDIUM"
              /\ \A w \in UnrecognizedPriority :
                    Field(given, "priority", <<>>) \in Spellings(w)
                        => stored.priority = "MEDIUM"

\* a candidate with neither status nor priority was stored with the defaults
C16_Witness ==
    /\ last.op = "ingest" /\ last.outcome = "stored"
    /\ Len(extraction.objectives) = 1 /\ Len(objectives) = 1
    /\ DOMAIN extraction.objectives[1] = {"key", "statement"}
    /\ objectives[1].status = "PROPOSED"
    /\ objectives[1].priority = "MEDIUM"

-----------------------------------------------------------------------------
(* Ingestions one after the other, each recorded in extraction *)

IngestRecorded ==
    /\ \E ext \in Extractions(Db) :
          ExtractAndStore(ext, 0) /\ extraction' = ext
    /\ WithinBounds(Db)'
    /\ UNCHANGED calls

NextRecorded == IngestRecorded

SpecRecorded == Init /\ [][NextRecorded]_vars

\* the types of the specification's synonym table that the extractions use
SynonymType == ("unblocks" :> "DEPENDS_ON") @@ ("supports" :> "SUPPORTS")

\* id is what the reference stands for after the step: the identifier
\* behind "existing:", or the identifier of the objective that this step
\* created from the candidate with the key
StoredAs(ref, id) ==
    IF startsWithExisting(ref) THEN id = ref[2]
    ELSE \E k \in DOMAIN objectives', j \in DOMAIN extraction'.objectives :
            /\ k > Len(objectives)
            /\ objectives'[k].id = id
            /\ extraction'.objectives[j].key = ref[1]
            /\ objectives'[k].text = Trim(extraction'.objectives[j].statement)

\* C17: every relationship an ingest writes comes from a candidate of the
\* request: a key endpoint is the identifier given in this transaction to
\* the objective created from the candidate with that key, an "existing:"
\* endpoint is the identifier after the tag, the type is the mapped one
C17_EndpointsResolved ==
    [][(last'.op = "ingest" /\ last'.outcome = "stored") =>
          \A r \in relationships' \ relationships :
             \E i \in DOMAIN extraction'.relationships :
                LET c == extraction'.relationships[i]
                IN  /\ StoredAs(c.from, r.fromId)
                    /\ StoredAs(c.to, r.toId)
                    /\ r.type = SynonymType[c.type]]_vars

\* {from: OBJ_A, to: existing:1, type: unblocks} was stored as DEPENDS_ON
\* from the new objective 2 to objective 1
C17_Witness ==
    /\ last.op = "ingest" /\ last.outcome = "stored"
    /\ Len(extraction.relationships) = 1
    /\ extraction.relationships[1].from = KeyRef(BatchKeys[1])
    /\ extraction.relationships[1].to = ExistingRef(1)
    /\ extraction.relationships[1].type = "unblocks"
    /\ \E r \in relationships :
          r.fromId = 2 /\ r.toId = 1 /\ r.type = "DEPENDS_ON"

-----------------------------------------------------------------------------
(* The readers over stores that ingestion builds.  The k-th ingestion      *)
(* brings the k-th text of ReadTexts, with or without a status and a link  *)
(* to a stored objective; last holds what the latest reader returned.      *)

ReadMaxObjectives == 3     \* Objective rows the store may hold here

ReadTexts == <<<<"a", " ", "b">>, <<"b">>, <<"a">>, <<"b", " ", "a">>>>

ReadExtractions(db) ==
    LET bare == [key |-> BatchKeys[1], statement |-> ReadTexts[Len(db.objectives) + 1]]
        done == [key |-> bare.key, statement |-> bare.statement,
                 status |-> Lowered(Spell["DONE"])]
        links == {<<>>} \cup
                 {<<[from |-> KeyRef(BatchKeys[1]), to |-> ExistingRef(id),
                     type |-> "unblocks", rationale |-> NullText]>> :
                    id \in ObjectiveIds(db)}
    IN  {[objectives |-> <<c>>, relationships |-> rl] :
            c \in {bare, done}, rl \in links}

IngestGraph ==
    /\ Len(objectives) < ReadMaxObjectives
    /\ \E ext \in ReadExtractions(Db) : ExtractAndStore(ext, 0)
    /\ UNCHANGED <<calls, extraction>>

\* GET /batch?ids=
ReadBatch ==
    /\ \E ids \in {<<i>> : i \in ObjectiveIds(Db) \cup {GhostId}}
                    \cup {<<i, j>> : i \in ObjectiveIds(Db), j \in ObjectiveIds(Db)} :
          last' = [op |-> "read", reader |-> "batch",
                   objectives |-> getObjectivesByIds(Db, ids)]
    /\ UNCHANGED <<entries, objectives, relationships, nextRelId, calls, extraction>>

\* GET /?limit=&offset=&query=
ReadList ==
    /\ \E limit \in 0..ReadMaxObjectives, offset \in 0..ReadMaxObjectives,
          query \in {<<>>, <<"B">>} :
          last' = [op |-> "read", reader |-> "list",
                   limit |-> limit, offset |-> offset, query |-> query,
                   objectives |->
                       IF Len(query) > 0
                       THEN searchObjectives(Db, query, limit, offset)
                       ELSE getObjectivesWithRelations(Db, limit, offset)]
    /\ UNCHANGED <<entries, objectives, relationships, nextRelId, calls, extraction>>

\* GET /graph
ReadGraph ==
    /\ last' = [op |-> "read", reader |-> "graph",
                objectives |-> getKnowledgeGraphSnapshot(Db).objectives]
    /\ UNCHANGED <<entries, objectives, relationships, nextRelId, calls, extraction>>

\* a client fetching page after page of one size, no write in between,
\* until a page comes back short
ReadPages ==
    /\ \E limit \in 1..ReadMaxObjectives :
          last' = [op |-> "pages", limit |-> limit,
                   pages |-> [k \in 1..((Len(objectives) \div limit) + 1) |->
                                 getObjectivesWithRelations(Db, limit, (k - 1) * limit)]]
    /\ UNCHANGED <<entries, objectives, relationships, nextRelId, calls, extraction>>

NextRead == IngestGraph \/ ReadBatch \/ ReadList \/ ReadGraph \/ ReadPages

SpecRead == Init /\ [][NextRead]_vars

\* C18: every objective a reader returns lists exactly the stored
\* relationships that leave it, and each entry carries the id, text,
\* status and priority that the target objective has in the store
C18_RelatedIsOutgoing ==
    last.op = "read" =>
        \A i \in DOMAIN last.objectives :
            LET dto == last.objectives[i]
            IN  /\ {e.id : e \in dto.related}
                      = {r.id : r \in {q \in relationships : q.fromId = dto.id}}
                /\ Cardinality(dto.related)
                      = Cardinality({q \in relationships : q.fromId = dto.id})
                /\ \A e \in dto.related :
                      \E r \in relationships, k \in DOMAIN objectives :
                          /\ r.id = e.id
                          /\ objectives[k].id = r.toId
                          /\ e.target.id = objectives[k].id
                          /\ e.target.text = objectives[k].text
                          /\ e.target.status = objectives[k].status
                          /\ e.target.priority = objectives[k].priority

\* objective 2 was returned with its link to 1 while 3 links to 2, the
\* status of 1 differing from that of 2
C18_Witness ==
    /\ last.op = "read"
    /\ \E i \in DOMAIN last.objectives :
          /\ last.objectives[i].id = 2
          /\ \E e \in last.objectives[i].related :
                e.target.id = 1 /\ e.target.status # last.objectives[i].status
    /\ \E r \in relationships : r.toId = 2

IdsOf(dtos) == [i \in DOMAIN dtos |-> dtos[i].id]

\* the identifiers at the positions first..final of the stored objectives,
\* most recently created first
NewestFirst(first, final) ==
    [p \in 1..(IF final < first THEN 0 ELSE final - first + 1) |->
        objectives[Len(objectives) + 2 - first - p].id]

RECURSIVE Flatten(_)
Flatten(seqs) == IF seqs = <<>> THEN <<>> ELSE Head(seqs) \o Flatten(Tail(seqs))

\* C19: a list request returns positions offset .. offset+limit-1 of the
\* stored objectives, newest first; pages of one size fetched one after
\* the other with no write between them put together list every stored
\* objective once
C19_PagesPartition ==
    /\ (last.op = "read" /\ last.reader = "list" /\ last.query = <<>>) =>
          IdsOf(last.objectives)
              = NewestFirst(last.offset + 1,
                            IF last.offset + last.limit < Len(objectives)
                            THEN last.offset + last.limit ELSE Len(objectives))
    /\ last.op = "pages" =>
          Flatten([k \in DOMAIN last.pages |-> IdsOf(last.pages[k])])
              = NewestFirst(1, Len(objectives))

\* the second page of size 1 of three objectives is objective 2
C19_Witness ==
    /\ last.op = "read" /\ last.reader = "list" /\ last.query = <<>>
    /\ last.limit = 1 /\ last.offset = 1
    /\ Len(objectives) = 3
    /\ IdsOf(last.objectives) = <<2>>

-----------------------------------------------------------------------------
(* The relationship routes over two stored objectives; extraction records  *)
(* the latest request.                                                     *)

CreateRecorded ==
    /\ \E payload \in CreatePayloads(Db, EnumTypes, {<<"r">>}) :
          /\ CreateRelationship(payload)
          /\ extraction' = [route |-> "create", payload |-> payload]
    /\ WithinBounds(Db)'
    /\ UNCHANGED calls

UpdateRecorded ==
    /\ \E id \in RelIds, payload \in UpdatePayloads(Db, EnumTypes, {<<"s">>}) :
          /\ UpdateRelationship(id, payload)
          /\ extraction' = [route |-> "update", id |-> id, payload |-> payload]
    /\ UNCHANGED calls

DeleteRecorded ==
    /\ \E id \in RelIds :
          /\ DeleteRelationship(id)
          /\ extraction' = [route |-> "delete", id |-> id]
    /\ UNCHANGED calls

NextRoutes == CreateRecorded \/ UpdateRecorded \/ DeleteRecorded

SpecRoutes == InitUpsert /\ [][NextRoutes]_vars

StoreUnchanged ==
    /\ entries' = entries /\ objectives' = objectives
    /\ relationships' = relationships

\* C20: createRelationship with source = target is refused as invalid
\* (400); updateRelationship is refused when no relationship has the id
\* (404) and when the new target is the relationship's source (400); the
\* store is as it was after each refusal
C20_RefusalsLeaveStore ==
    [][/\ (extraction'.route = "create"
              /\ extraction'.payload.fromId = extraction'.payload.toId)
          => (last'.status = 400 /\ StoreUnchanged)
       /\ (extraction'.route = "update"
              /\ \A r \in relationships : r.id # extraction'.id)
          => (last'.status = 404 /\ StoreUnchanged)
       /\ (extraction'.route = "update"
              /\ \E r \in relationships :
                    r.id = extraction'.id /\ r.fromId = extraction'.payload.toId)
          => (last'.status = 400 /\ StoreUnchanged)]_vars

\* an update moving the target of a stored relationship onto its source was
\* answered 400
C20_Witness ==
    /\ last = [op |-> "updateRelationship", status |-> 400]
    /\ extraction.route = "update"
    /\ \E r \in relationships :
          r.id = extraction.id /\ r.fromId = extraction.payload.toId

-----------------------------------------------------------------------------
(* PATCH /relationships/:id in flight: the route awaits between its        *)
(* findUnique and updateObjectiveRelationshipRecord, and the other routes  *)
(* run in between.                                                         *)

\* up to the await of updateObjectiveRelationshipRecord
UpdateCheck ==
    /\ calls[1].pc = "idle"
    /\ \E id \in RelIds, payload \in UpdatePayloads(Db, EnumTypes, {<<"s">>}) :
          LET refused == updateTargetCheck(Db, id, payload)
          IN  IF refused # 0
              THEN /\ last' = [op |-> "updateRelationship", status |-> refused]
                   /\ extraction' = [route |-> "update", phase |-> "check",
                                     id |-> id, payload |-> payload]
                   /\ UNCHANGED calls
              ELSE /\ calls' = [calls EXCEPT ![1] =
                                  [pc |-> "checked", id |-> id, payload |-> payload]]
                   /\ extraction' = [route |-> "await"]
                   /\ UNCHANGED last
    /\ UNCHANGED <<entries, objectives, relationships, nextRelId>>

\* the write and the answer
UpdateWrite ==
    /\ calls[1].pc = "checked"
    /\ LET res == updateObjectiveRelationshipRecord(Db, calls[1].id, calls[1].payload)
       IN  /\ SetDb(res.db)
           /\ last' = [op |-> "updateRelationship",
                       status |-> statusOf(res.code, 200)]
    /\ extraction' = [route |-> "update", phase |-> "write",
                      id |-> calls[1].id, payload |-> calls[1].payload]
    /\ calls' = [calls EXCEPT ![1] = Idle]

NextStale == CreateRecorded \/ DeleteRecorded \/ UpdateCheck \/ UpdateWrite

SpecStale == InitUpsert /\ [][NextStale]_vars

\* the triple an update of row r by payload asks for
UpdatedTriple(r, payload) ==
    [fromId |-> r.fromId,
     toId |-> IF payload.toId = NullId THEN r.toId ELSE payload.toId,
     type |-> IF payload.type = NullStr THEN r.type ELSE payload.type]

TripleOf(r) == [fromId |-> r.fromId, toId |-> r.toId, type |-> r.type]

\* C21: an update or a delete of an id no row has (also when the row went
\* between the update's check and its write) is answered 404; a create or
\* an update into a triple another row holds is answered 409; each is
\* answered by that one call and the store is as it was
C21_NotFoundAndConflict ==
    [][/\ (extraction'.route \in {"update", "delete"}
              /\ \A r \in relationships : r.id # extraction'.id)
          => (/\ last'.status = 404 /\ StoreUnchanged
              /\ extraction'.route = "update" => calls'[1] = Idle)
       /\ (extraction'.route = "create"
              /\ extraction'.payload.fromId # extraction'.payload.toId
              /\ \E r \in relationships :
                    TripleOf(r) = TripleOf(extraction'.payload))
          => (last'.status = 409 /\ StoreUnchanged)
       /\ (extraction'.route = "update" /\ extraction'.phase = "write"
              /\ \E r, o \in relationships :
                    /\ r.id = extraction'.id /\ o.id # r.id
                    /\ TripleOf(o) = UpdatedTriple(r, extraction'.payload))
          => (last'.status = 409 /\ StoreUnchanged /\ calls'[1] = Idle)]_vars

\* an update whose check found the row was answered 404 by its write
C21_Witness ==
    /\ last = [op |-> "updateRelationship", status |-> 404]
    /\ extraction.route = "update"
    /\ extraction.phase = "write"
    /\ extraction.payload.toId # NullId

-----------------------------------------------------------------------------
(* Every route of the router, one request after the other, and the         *)
(* preparation stage of an ingest on its own.                              *)

IngestFrame ==
    /\ \E ext \in ReadExtractions(Db), fault \in 0..MaxFault :
          ExtractAndStore(ext, fault)
    /\ WithinBounds(Db)'
    /\ UNCHANGED <<calls, extraction>>

\* a stage that keeps a container row for what it prepared
PrepareStoring ==
    /\ \E ext \in ReadExtractions(Db) :
          last' = [op |-> "prepare",
                   drafts |-> prepareObjectiveDrafts(ext, objectives)]
    /\ entries' = createEntry(Db).entries
    /\ UNCHANGED <<objectives, relationships, nextRelId, calls, extraction>>

\* prepareObjectiveDrafts, as the route calls it before the writer
PrepareOnly ==
    /\ \E ext \in ReadExtractions(Db) :
          last' = [op |-> "prepare",
                   drafts |-> prepareObjectiveDrafts(ext, objectives)]
    /\ UNCHANGED <<entries, objectives, relationships, nextRelId, calls, extraction>>

NextFrame ==
    \/ IngestFrame \/ PrepareOnly
    \/ ReadBatch \/ ReadList \/ ReadGraph
    \/ Create \/ Update \/ Delete

SpecFrame == Init /\ [][NextFrame]_vars

\* C22: a read (batch, list, search, graph) and the preparation stage leave
\* entries, objectives and relationships as they were, and a step that
\* changes the entries or the objectives is a stored ingest
C22_OnlyWriterCreates ==
    [][/\ last'.op \in {"read", "prepare"} => StoreUnchanged
       /\ (entries' # entries \/ objectives' # objectives)
             => (last'.op = "ingest" /\ last'.outcome = "stored")]_vars

\* the stage prepared a draft over a store that holds a relationship
C22_Witness ==
    /\ last.op = "prepare"
    /\ last.drafts.objectives # <<>>
    /\ relationships # {}

\* C23: every step keeps each stored objective row, fields and all, and new
\* rows come only with a stored ingest, as many as it reports inserted
C23_ObjectivesOnlyGrow ==
    [][/\ Len(objectives') >= Len(objectives)
       /\ \A i \in DOMAIN objectives : objectives'[i] = objectives[i]
       /\ Len(objectives') > Len(objectives)
             => /\ last'.op = "ingest"
                /\ last'.outcome = "stored"
                /\ last'.totalInserted = Len(objectives') - Len(objectives)]_vars

\* a relationship between two stored objectives was deleted
C23_Witness ==
    /\ last = [op |-> "deleteRelationship", status |-> 200]
    /\ Len(objectives) = 2
    /\ nextRelId > 1

-----------------------------------------------------------------------------
(* findRelatedObjectives over small texts; extraction holds the call's     *)
(* arguments and the configuration.                                        *)

RelatedMaxExisting == 6     \* existing objectives handed to one call

\* "map api test", "API, map!", "test it", "on we go"
RelatedExistingTexts ==
    <<<<"m", "a", "p", " ", "a", "p", "i", " ", "t", "e", "s", "t">>,
      <<"A", "P", "I", ",", " ", "m", "a", "p", "!">>,
      <<"t", "e", "s", "t", " ", "i", "t">>,
      <<"o", "n", " ", "w", "e", " ", "g", "o">>>>

\* "Map the API test", "api", ""
RelatedNewTexts ==
    {<<"M", "a", "p", " ", "t", "h", "e", " ", "A", "P", "I", " ", "t", "e", "s", "t">>,
     <<"a", "p", "i">>,
     <<>>}

RelatedExisting ==
    UNION {{[i \in 1..n |-> [id |-> i, text |-> RelatedExistingTexts[pick[i]]]] :
               pick \in [1..n -> DOMAIN RelatedExistingTexts]} :
           n \in 0..RelatedMaxExisting}

InitRelated ==
    /\ entries = {}
    /\ objectives = <<>>
    /\ relationships = {}
    /\ nextRelId = 1
    /\ calls = [p \in Slots |-> Idle]
    /\ extraction \in [text : RelatedNewTexts, existing : RelatedExisting,
                       enabled : BOOLEAN]
    /\ last = NoAnswer

FindRelated ==
    /\ last = NoAnswer
    /\ last' = [op |-> "related",
                result |-> findRelatedObjectives(extraction.text,
                              extraction.existing, extraction.enabled)]
    /\ UNCHANGED <<entries, objectives, relationships, nextRelId, calls, extraction>>

NextRelated == FindRelated

SpecRelated == InitRelated /\ [][NextRelated]_vars

\* C24: the call returns what it returns with EMBEDDINGS_ENABLED the other
\* way round, which is the keyword result, and nothing for no existing
\* objectives
C24_EmbeddingsOptional ==
    last.op = "related" =>
        /\ last.result = findRelatedObjectives(extraction.text,
                            extraction.existing, ~extraction.enabled)
        /\ extraction.existing = <<>> => last.result = <<>>

\* a call with embeddings enabled returned related objectives
C24_Witness ==
    /\ last.op = "related"
    /\ extraction.enabled
    /\ last.result # <<>>

\* the Jaccard overlap of an objective's keywords with the new text's
OverlapOf(obj) ==
    [id |-> obj.id,
     score |-> calculateKeywordOverlap(extractWords(extraction.text),
                                       extractWords(obj.text))]

LeftOut ==
    {i \in DOMAIN extraction.existing :
        \A k \in DOMAIN last.result : last.result[k].id # extraction.existing[i].id}

\* C26: at most five objectives come back, all of them existing ones with
\* an overlap above 0, highest overlap first, and none left out has a
\* higher overlap than one that came back
C26_TopFiveByOverlap ==
    last.op = "related" =>
        /\ Len(last.result) <= 5
        /\ \A k \in DOMAIN last.result :
              /\ \E i \in DOMAIN extraction.existing :
                    extraction.existing[i] = last.result[k]
              /\ OverlapOf(last.result[k]).score.num > 0
        /\ \A j, k \in DOMAIN last.result :
              j < k => ~ScoreAbove(OverlapOf(last.result[k]), OverlapOf(last.result[j]))
        /\ \A i \in LeftOut, k \in DOMAIN last.result :
              ~ScoreAbove(OverlapOf(extraction.existing[i]), OverlapOf(last.result[k]))

\* five of six overlapping objectives came back, of differing overlap
C26_Witness ==
    /\ last.op = "related"
    /\ Len(last.result) = 5
    /\ LeftOut # {}
    /\ \A i \in LeftOut : OverlapOf(extraction.existing[i]).score.num > 0
    /\ ScoreAbove(OverlapOf(last.result[1]), OverlapOf(last.result[5]))

-----------------------------------------------------------------------------
(* The key repair of extractObjectiveGraph over the keys the model         *)
(* returned; NullStr stands for a key that is missing.                     *)

generateKey(index) ==
    LET letter == UpperLetters[((index - 1) % Len(UpperLetters)) + 1]
        cycle == (index - 1) \div Len(UpperLetters)
    IN  IF cycle = 0 THEN "OBJ_" \o letter
        ELSE "OBJ_" \o ToString(cycle + 1) \o letter

\* the key the loop leaves on an objective, given the keys used so far
repairedKey(key, usedKeys) ==
    IF key \in {NullStr, ""} \/ key \in usedKeys
    THEN generateKey(Cardinality(usedKeys) + 1)
    ELSE key

\* for (const objective of objectives) { ... }
RECURSIVE repairLoop(_, _, _)
repairLoop(objs, i, usedKeys) ==
    IF i > Len(objs) THEN objs
    ELSE repairLoop([objs EXCEPT ![i].key = repairedKey(@, usedKeys)], i + 1,
                    usedKeys \cup {repairedKey(objs[i].key, usedKeys)})

KeysMaxObjectives == 3      \* objectives of one model response

ReturnedKeys == {NullStr, "", "OBJ_A", "OBJ_B", "k"}

KeyedObjectives ==
    UNION {[1..n -> [key : ReturnedKeys, statement : {<<"a">>}]] :
              n \in 0..KeysMaxObjectives}

InitKeys ==
    /\ entries = {}
    /\ objectives = <<>>
    /\ relationships = {}
    /\ nextRelId = 1
    /\ calls = [p \in Slots |-> Idle]
    /\ extraction \in {[objectives |-> ol, relationships |-> <<>>] :
                          ol \in KeyedObjectives}
    /\ last = NoAnswer

RepairKeys ==
    /\ last = NoAnswer
    /\ last' = [op |-> "extract",
                objectives |-> repairLoop(extraction.objectives, 1, {})]
    /\ UNCHANGED <<entries, objectives, relationships, nextRelId, calls, extraction>>

NextKeys == RepairKeys

SpecKeys == InitKeys /\ [][NextKeys]_vars

\* C25: after the repair every objective has a key that is not empty and
\* no two objectives have the same key
C25_KeysPresentAndDistinct ==
    last.op = "extract" =>
        /\ \A i \in DOMAIN last.objectives :
              last.objectives[i].key \notin {NullStr, ""}
        /\ \A i, j \in DOMAIN last.objectives :
              i # j => last.objectives[i].key # last.objectives[j].key

-----------------------------------------------------------------------------
(* GET /graph in flight: getKnowledgeGraphSnapshot awaits its query of the *)
(* objectives and then its query of the relationships, outside any         *)
(* transaction, and the writing routes run in between.                     *)

SnapshotObjectives ==
    /\ calls[1].pc = "idle"
    /\ calls' = [calls EXCEPT ![1] =
                    [pc |-> "objectives", objectives |-> snapshotObjectives(Db)]]
    /\ UNCHANGED <<entries, objectives, relationships, nextRelId, extraction, last>>

SnapshotRelationships ==
    /\ calls[1].pc = "objectives"
    /\ last' = [op |-> "snapshot",
                objectives |-> calls[1].objectives,
                relationships |-> snapshotRelationships(Db)]
    /\ calls' = [calls EXCEPT ![1] = Idle]
    /\ UNCHANGED <<entries, objectives, relationships, nextRelId, extraction>>

NextSnapshot ==
    \/ SnapshotObjectives \/ SnapshotRelationships
    \/ IngestGraph \/ Create \/ Delete

SpecSnapshot == InitUpsert /\ [][NextSnapshot]_vars

\* C27: in every snapshot returned, each relationship of the list has its
\* source and its target among the objectives, and the ids of the list are
\* the ids of the objectives' related lists
C27_SnapshotConsistent ==
    last.op = "snapshot" =>
        /\ \A r \in last.relationships :
              /\ \E i \in DOMAIN last.objectives : last.objectives[i].id = r.fromId
              /\ \E i \in DOMAIN last.objectives : last.objectives[i].id = r.toId
        /\ {r.id : r \in last.relationships}
              = UNION {{l.id : l \in last.objectives[i].related} :
                          i \in DOMAIN last.objectives}

-----------------------------------------------------------------------------
(* The container row of an ingestion *)

\* C28: a step that stores a KnowledgeEntry is an ingest that inserted an
\* objective or inserted or updated a relationship
C28_NoEmptyEntry ==
    [][entries' # entries
          => /\ last'.op = "ingest"
             /\ last'.totalInserted >= 1 \/ last'.relationshipsCreated >= 1]_vars

-----------------------------------------------------------------------------
(* The counts an ingest reports *)

\* the stored relationships that a candidate of the request stands for
\* after the step: the rows this ingestion inserted or updated
RowsWritten ==
    {r \in relationships' :
        \E i \in DOMAIN extraction'.relationships :
           /\ StoredAs(extraction'.relationships[i].from, r.fromId)
           /\ StoredAs(extraction'.relationships[i].to, r.toId)
           /\ r.type = SynonymType[extraction'.relationships[i].type]}

\* C29: a stored ingest reports as relationshipsCreated the number of
\* relationship rows it inserted or updated, and as totalInserted the
\* number of objective rows it inserted
C29_CountsAreRows ==
    [][(last'.op = "ingest" /\ last'.outcome = "stored") =>
          /\ last'.relationshipsCreated = Cardinality(RowsWritten)
          /\ last'.totalInserted = Len(objectives') - Len(objectives)]_vars

-----------------------------------------------------------------------------
(* Ingests that name one relationship between the two stored objectives,   *)
(* with and without a rationale and a weight.                              *)

MergeLinks ==
    LET bare == {[from |-> ExistingRef(1), to |-> ExistingRef(2),
                  type |-> ty, rationale |-> ra] :
                    ty \in TypeStrings,
                    ra \in {NullText, <<"r">>, <<" ", "s">>, <<" ">>}}
    IN  bare \cup
        {[from |-> c.from, to |-> c.to, type |-> c.type,
          rationale |-> c.rationale, weight |-> w] :
            c \in bare,
            w \in {Null, Num(42 * 100), Num(150 * 100), Str(<<"a", "b">>)}}

IngestMerge ==
    /\ \E link \in MergeLinks :
          LET ext == [objectives |-> <<>>, relationships |-> <<link>>]
          IN  ExtractAndStore(ext, 0) /\ extraction' = ext
    /\ UpsertBounds
    /\ UNCHANGED calls

NextMerge == IngestMerge

SpecMerge == InitUpsert /\ [][NextMerge]_vars

\* the row that old becomes under the draft
Merged(old, draft) ==
    [old EXCEPT
        !.rationale = IF draft.rationale = NullText THEN @ ELSE draft.rationale,
        !.weight = IF draft.weight = Null THEN @ ELSE draft.weight]

\* C30: an ingest of a relationship whose triple is stored leaves the row
\* with its id, source, target and type, with the draft's rationale and
\* weight where the draft has them and the stored ones where it has not,
\* and adds no row
C30_AbsentFieldsKept ==
    [][(last'.op = "ingest" /\ last'.outcome = "stored") =>
          \A old \in RowsOf(relationships, extraction'.relationships[1]) :
             relationships' =
                (relationships \ {old}) \cup
                {Merged(old, toRelationshipDraft(extraction'.relationships[1]))}]_vars

\* a relationship stored with rationale "r" and weight 0.42 was named again
\* with neither and has both
C30_Witness ==
    /\ last.op = "ingest"
    /\ last.outcome = "stored"
    /\ Cardinality(entries) = 3
    /\ extraction.relationships[1].rationale = NullText
    /\ "weight" \notin DOMAIN extraction.relationships[1]
    /\ \E r \in relationships : r.rationale = <<"r">> /\ r.weight = Num(42 * 100)

====
